---- MODULE Spec2Model ----
(***************************************************************************)
(* Mailbox synchronisation of dash-chat: the relay's blob store            *)
(* (crates/mailbox-server) and the client manager (crates/mailbox-client). *)
(* The relay's store_blobs, get_blobs_for_topics and                       *)
(* compute_initial_watermarks handlers are declared in                     *)
(* mailbox-server/src/lib.rs but their bodies are not part of the source   *)
(* tree at hand; they are modelled from the specification (sections 3,     *)
(* 4.2, 4.3 and 5) and marked so where they are defined.                   *)
(***************************************************************************)
EXTENDS Integers, Sequences, FiniteSets, TLC

(***************************************************************************)
(* Domains and bounds                                                      *)
(***************************************************************************)
Topics == {"t1", "t2"}
Authors == {"a1", "a2"}

\* Highest sequence number of the model.
MaxSeq == 2
Seqs == 0..MaxSeq

\* Most rows other publishers put into the relay's blob table.
MaxBlobs == 2

\* Most items of one store request.
MaxBatch == 2

\* The bits of a version-7 uuid below its timestamp.
Rnd == {0, 1}

\* Order of the author strings, as the byte order of the names.
AuthorRank(a) == IF a = "a1" THEN 1 ELSE 2

Pairs == Topics \X Authors

(***************************************************************************)
(* Wall-clock time, in milliseconds since the Unix epoch.  The clock moves *)
(* along a ladder of instants chosen around the retention horizon.         *)
(***************************************************************************)
DayMs == 24 * 60 * 60 * 1000
T0 == 10 * DayMs
Instants == {T0, T0 + 7 * DayMs, T0 + 7 * DayMs + 700, T0 + 8 * DayMs}

\* cleanup.rs: MESSAGE_MAX_AGE, in seconds.
MESSAGE_MAX_AGE == 7 * 24 * 60 * 60

(***************************************************************************)
(* Items, blob keys and their order                                        *)
(***************************************************************************)
\* The opaque item of (topic, author, seq): it carries what derives its topic.
Item(t, a, s) == [topic |-> t, author |-> a, seq |-> s]
Items == [topic : Topics, author : Authors, seq : Seqs]

\* uuid::Uuid's Ord is the order of its 16 bytes: the 48-bit millisecond
\* timestamp first, then the remaining bits.
UuidLess(u, v) == u.ts < v.ts \/ (u.ts = v.ts /\ u.rnd < v.rnd)

\* A row of BLOBS_TABLE: the key (topic, author, seq, uuid) and the payload.
Row(it, u) == [topic |-> it.topic, author |-> it.author, seq |-> it.seq,
               uuid |-> u, payload |-> it]

\* Order of two rows under one (topic, author) prefix: by seq, then uuid.
RowLess(r1, r2) == r1.seq < r2.seq \/ (r1.seq = r2.seq /\ UuidLess(r1.uuid, r2.uuid))

RECURSIVE ScanOrder(_)
\* The rows of S as a range scan yields them.
ScanOrder(S) ==
    IF S = {} THEN <<>>
    ELSE LET r == CHOOSE x \in S : \A y \in S \ {x} : RowLess(x, y)
         IN <<r>> \o ScanOrder(S \ {r})

RowsOf(bl, t, a) == {r \in bl : r.topic = t /\ r.author = a}
StoredSeqs(bl, t, a) == {r.seq : r \in RowsOf(bl, t, a)}

SeqToSet(q) == {q[i] : i \in 1..Len(q)}

MaxOf(S) == CHOOSE x \in S : \A y \in S : y <= x
MinOf(S) == CHOOSE x \in S : \A y \in S : x <= y

(***************************************************************************)
(* State                                                                   *)
(***************************************************************************)
VARIABLES
    blobs,        \* relay: the committed rows of BLOBS_TABLE
    watermarks,   \* relay: the committed WATERMARKS_TABLE, (topic, author) -> seq
    wtx,          \* relay: the tables as the open write transaction sees them
    srv,          \* relay: "up" while the server process runs, else "down"
    now,          \* wall clock, milliseconds
    last,         \* the last relay operation and what it returned (history)
    log,          \* client: the local operation store, (topic, author) -> height
    topics,       \* client: the topics of the manager's topic-to-channel map
    sync,         \* client: the sync_topics call in progress
    settled,      \* client: the pairs the last call reconciled (history)
    mailboxes,    \* client: the manager's list of relays
    loop,         \* client: the background loop of spawn and its locals
    trigger,      \* client: the wakes queued in the trigger channel
    clk,          \* client: the monotonic clock of the loop
    config,       \* client: MailboxesConfig
    hist,         \* client: what the loop did last (history)
    deliv,        \* client: the delivery channels of the topic map
    node,         \* node: identity, clock, contact code and active inbox topics
    lastcall,     \* client: the call whose publish failed last (history)
    locks,        \* client: the two mutexes, the channel of a topic, the cycle's
                  \* snapshots
    direct,       \* client: the sync_topics call of a user of the manager
    mbox,         \* app: the local mailbox server and its shared state
    lstore        \* node: the LocalStore database, identity and active inboxes

relayVars == <<blobs, watermarks, wtx, srv, now, last>>
clientVars == <<log, topics, sync, settled>>
loopVars == <<mailboxes, loop, trigger, clk, config, hist>>
\* What the relay's handlers and the steps inside sync_topics leave alone.
restVars == <<loopVars, deliv, node, lastcall, locks, direct, mbox, lstore>>
vars == <<blobs, watermarks, wtx, srv, now, last, log, topics, sync, settled,
          mailboxes, loop, trigger, clk, config, hist, deliv, node, lastcall, locks, direct, mbox, lstore>>

EmptyWatermarks == [p \in {} |-> 0]
NoTxn == [open |-> FALSE]
Op(name, flag) == [op |-> name, flag |-> flag]
FetchOp(req, resp, again) == [op |-> "fetch", req |-> req, resp |-> resp, repeat |-> again]

(***************************************************************************)
(* Relay: store (modelled from the specification, section 4.2 "store" and  *)
(* section 5 "atomic per store call")                                      *)
(***************************************************************************)
\* The watermark set to the sequence number just stored, whatever it held.
OverwriteWatermark(w, t, a, s) ==
    [p \in DOMAIN w \cup {<<t, a>>} |-> IF p = <<t, a>> THEN s ELSE w[p]]

\* WatermarkEntry[topic, author] advanced to max(current, sequence).
AdvanceWatermark(w, t, a, s) ==
    LET p == <<t, a>> IN
    IF p \in DOMAIN w
    THEN [w EXCEPT ![p] = IF s > w[p] THEN s ELSE w[p]]
    ELSE [q \in DOMAIN w \cup {p} |-> IF q = p THEN s ELSE w[q]]

\* The EntryId of a row stored at time t: a version-7 uuid, the timestamp the
\* clock's.  Its remaining bits are random and practically unique; the model
\* takes the least value no row of the same (topic, author, seq, timestamp)
\* has.  How the bits compare with a sweep's cutoff is left open there.
FreshUuid(bl, it, t) ==
    LET used == {r.uuid.rnd : r \in {x \in RowsOf(bl, it.topic, it.author) :
                                        x.seq = it.seq /\ x.uuid.ts = t}}
    IN [ts |-> t, rnd |-> MinOf(Rnd \ used)]
HasFreshUuid(bl, it, t) ==
    \E n \in Rnd : \A r \in RowsOf(bl, it.topic, it.author) :
        ~(r.seq = it.seq /\ r.uuid = [ts |-> t, rnd |-> n])

\* One item stored inside a write transaction: the row under a fresh EntryId
\* and the watermark advance.
StoreOne(tbl, it, t) ==
    [blobs |-> tbl.blobs \cup {Row(it, FreshUuid(tbl.blobs, it, t))},
     watermarks |-> AdvanceWatermark(tbl.watermarks, it.topic, it.author, it.seq)]

RECURSIVE CanStore(_, _, _)
\* Every item of the batch finds an unused EntryId.
CanStore(tbl, batch, t) ==
    IF batch = <<>> THEN TRUE
    ELSE /\ HasFreshUuid(tbl.blobs, Head(batch), t)
         /\ CanStore(StoreOne(tbl, Head(batch), t), Tail(batch), t)

RECURSIVE StoreBatch(_, _, _)
\* A store request, a sequence of items, applied in order at time t.
StoreBatch(tbl, batch, t) ==
    IF batch = <<>> THEN tbl
    ELSE StoreBatch(StoreOne(tbl, Head(batch), t), Tail(batch), t)

\* Whether a batch holds an item at or below the watermark its pair has in tbl:
\* an out-of-order or a repeated store.
StoresBelow(tbl, batch) ==
    \E i \in 1..Len(batch) :
        LET p == <<batch[i].topic, batch[i].author>>
        IN p \in DOMAIN tbl.watermarks /\ batch[i].seq <= tbl.watermarks[p]

\* The commit leaves the watermark table as it was.
CommitBlobsOnly(tx, old) == [blobs |-> tx.tbl.blobs, watermarks |-> old.watermarks]

\* The commit of a write transaction: both tables at once.
CommitTables(tx, old) == tx.tbl

Committed == [blobs |-> blobs, watermarks |-> watermarks]

(***************************************************************************)
(* Relay: startup (lib.rs init_db; compute_initial_watermarks is modelled  *)
(* from the specification, section 4.2 "Startup watermark rebuild")        *)
(***************************************************************************)
RECURSIVE ScanWatermarks(_, _)
\* One pass over the stored blob keys, advancing an initially empty table.
ScanWatermarks(S, w) ==
    IF S = {} THEN w
    ELSE LET r == CHOOSE x \in S : TRUE
         IN ScanWatermarks(S \ {r}, AdvanceWatermark(w, r.topic, r.author, r.seq))

\* The watermark table recomputed from the blob table alone; the persisted
\* table w is overwritten.
compute_initial_watermarks(bl, w) == ScanWatermarks(bl, EmptyWatermarks)

\* init_db leaves the blob table alone and skips the rebuild.
InitDbNoRebuild(tbl) == tbl

\* init_db: open the database, create both tables if absent, rebuild.
init_db(tbl) ==
    [blobs |-> tbl.blobs,
     watermarks |-> compute_initial_watermarks(tbl.blobs, tbl.watermarks)]

(***************************************************************************)
(* Relay: fetch (modelled from the specification, sections 4.2 "fetch",    *)
(* 4.3 and 9)                                                              *)
(***************************************************************************)
\* The sequence numbers at or below the tracked watermark with no stored row.
MissingSeqs(tbl, t, a) ==
    IF <<t, a>> \in DOMAIN tbl.watermarks
    THEN {s \in 0..tbl.watermarks[<<t, a>>] : s \notin StoredSeqs(tbl.blobs, t, a)}
    ELSE {}

\* The payloads of the rows from the reported height on, in key order.
ItemsFromHeight(bl, t, a, h) ==
    LET rows == ScanOrder({r \in RowsOf(bl, t, a) : r.seq >= h})
    IN [i \in 1..Len(rows) |-> rows[i].payload]

\* The payloads of the rows above the reported height, in key order.
NewItems(bl, t, a, h) ==
    LET rows == ScanOrder({r \in RowsOf(bl, t, a) : r.seq > h})
    IN [i \in 1..Len(rows) |-> rows[i].payload]

RECURSIVE ItemsOfAuthors(_, _, _, _)
\* The authors of a request are visited in the order of its map.
ItemsOfAuthors(bl, t, heights, as) ==
    IF as = {} THEN <<>>
    ELSE LET a == CHOOSE x \in as : \A y \in as : AuthorRank(x) <= AuthorRank(y)
         IN NewItems(bl, t, a, heights[a]) \o ItemsOfAuthors(bl, t, heights, as \ {a})

\* One topic of a fetch: the items to pull and, per author, what to push.
FetchTopic(tbl, t, heights) ==
    LET lacking == {a \in DOMAIN heights : MissingSeqs(tbl, t, a) # {}}
    IN [items |-> ItemsOfAuthors(tbl.blobs, t, heights, DOMAIN heights),
        missing |-> [a \in lacking |-> MissingSeqs(tbl, t, a)]]

\* The fetch handler: a read transaction over the committed tables.
get_blobs_for_topics(tbl, req) == [t \in DOMAIN req |-> FetchTopic(tbl, t, req[t])]

\* Fetch requests: topic -> author -> height.
AuthorMaps == UNION {[A -> Seqs] : A \in SUBSET Authors}
Requests == UNION {[T -> AuthorMaps] : T \in SUBSET Topics}
ReqPairs(req) == {p \in Pairs : p[1] \in DOMAIN req /\ p[2] \in DOMAIN req[p[1]]}
\* The requests of a client that follows one topic.
TopicRequests == {req \in Requests : Cardinality(DOMAIN req) = 1}

(***************************************************************************)
(* Relay: retention sweep (cleanup.rs)                                     *)
(***************************************************************************)
\* cutoff_time.duration_since(UNIX_EPOCH)?.as_secs(): whole seconds.
CutoffSecs(t) == (t - MESSAGE_MAX_AGE * 1000) \div 1000

\* Uuid::new_v7(Timestamp::from_unix(NoContext, secs, 0)): the timestamp of
\* the cutoff second, the remaining bits random (r).
CutoffUuid(t, r) == [ts |-> CutoffSecs(t) * 1000, rnd |-> r]

\* A sweep whose horizon is MESSAGE_MAX_AGE read as milliseconds.
CleanupAgeInMillis(bl, t, r) ==
    {b \in bl : ~UuidLess(b.uuid, [ts |-> ((t - MESSAGE_MAX_AGE) \div 1000) * 1000,
                                   rnd |-> r])}

\* cleanup_old_messages: the rows left after one committed sweep at time t.
cleanup_old_messages(bl, t, r) == {b \in bl : ~UuidLess(b.uuid, CutoffUuid(t, r))}

(***************************************************************************)
(* Relay actions                                                           *)
(***************************************************************************)
Batches == UNION {[1..n -> Items] : n \in 1..MaxBatch}

\* store_blobs, first half: the write transaction is opened and every item of
\* the request is written into it.
StoreBegin ==
    /\ srv = "up" /\ ~wtx.open
    /\ \E batch \in Batches :
          /\ Cardinality(blobs) + Len(batch) <= MaxBlobs
          /\ CanStore(Committed, batch, now)
          /\ wtx' = [open |-> TRUE, batch |-> batch,
                     tbl |-> StoreBatch(Committed, batch, now)]
    /\ last' = Op("store_begin", FALSE)
    /\ UNCHANGED <<blobs, watermarks, srv, now>>
    /\ UNCHANGED clientVars
    /\ UNCHANGED restVars

\* store_blobs, second half: the transaction commits both tables at once.
StoreCommit ==
    /\ srv = "up" /\ wtx.open
    /\ blobs' = CommitTables(wtx, Committed).blobs
    /\ watermarks' = CommitTables(wtx, Committed).watermarks
    /\ wtx' = NoTxn
    /\ last' = Op("store", StoresBelow(Committed, wtx.batch))
    /\ UNCHANGED <<srv, now>>
    /\ UNCHANGED clientVars
    /\ UNCHANGED restVars

\* store_blobs fails before its commit: the transaction is dropped.
StoreAbort ==
    /\ srv = "up" /\ wtx.open
    /\ wtx' = NoTxn
    /\ last' = Op("store_failed", FALSE)
    /\ UNCHANGED <<blobs, watermarks, srv, now>>
    /\ UNCHANGED clientVars
    /\ UNCHANGED restVars

\* A fetch that takes the rows it delivers out of the blob table.
FetchConsuming ==
    /\ srv = "up"
    /\ \E req \in TopicRequests :
          /\ last' = FetchOp(req, get_blobs_for_topics(Committed, req),
                             last.op = "fetch" /\ last.req = req)
          /\ blobs' = {b \in blobs : \A t \in DOMAIN req :
                          b.payload \notin SeqToSet(last'.resp[t].items)}
    /\ UNCHANGED <<watermarks, wtx, srv, now>>
    /\ UNCHANGED clientVars
    /\ UNCHANGED restVars

\* get_blobs_for_topics serves a request from the committed tables.
Fetch ==
    /\ srv = "up"
    /\ \E req \in TopicRequests :
          last' = FetchOp(req, get_blobs_for_topics(Committed, req),
                          last.op = "fetch" /\ last.req = req)
    /\ UNCHANGED <<blobs, watermarks, wtx, srv, now>>
    /\ UNCHANGED clientVars
    /\ UNCHANGED restVars

\* One committed sweep: what it does to the relay.
Sweeping ==
    /\ srv = "up" /\ ~wtx.open
    /\ \E r \in Rnd : blobs' = cleanup_old_messages(blobs, now, r)
    /\ last' = Op("cleanup", blobs' # blobs)
    /\ UNCHANGED <<watermarks, wtx, srv, now>>
    /\ UNCHANGED clientVars

\* One sweep of the cleanup task, committed.
Cleanup == Sweeping /\ UNCHANGED restVars

\* One sweep that fails (an I/O error on the scan, a removal or the commit):
\* the write transaction is dropped uncommitted.
CleanupFail ==
    /\ srv = "up" /\ ~wtx.open
    /\ last' = Op("cleanup_failed", FALSE)
    /\ UNCHANGED <<blobs, watermarks, wtx, srv, now>>
    /\ UNCHANGED clientVars
    /\ UNCHANGED restVars

\* The server process dies; an open write transaction is lost.
Crash ==
    /\ srv = "up"
    /\ srv' = "down"
    /\ wtx' = NoTxn
    /\ last' = Op("crash", wtx.open)
    /\ UNCHANGED <<blobs, watermarks, now>>
    /\ UNCHANGED clientVars
    /\ UNCHANGED restVars

\* spawn_server: init_db on the persisted tables.
Restart ==
    /\ srv = "down"
    /\ srv' = "up"
    /\ blobs' = init_db(Committed).blobs
    /\ watermarks' = init_db(Committed).watermarks
    /\ last' = Op("init_db", watermarks' # watermarks)
    /\ UNCHANGED <<wtx, now>>
    /\ UNCHANGED clientVars
    /\ UNCHANGED restVars

\* Time passes to the next instant of the ladder.
Tick ==
    /\ \E t \in Instants :
          /\ t > now
          /\ \A u \in Instants : u > now => t <= u
          /\ now' = t
    /\ UNCHANGED <<blobs, watermarks, wtx, srv, last>>
    /\ UNCHANGED clientVars
    /\ UNCHANGED restVars

(***************************************************************************)
(* Client: the local operation store (the collaborator of section 6)       *)
(***************************************************************************)
\* Most items the local store holds over all its logs.
MaxLocal == 3

\* The local store holds, per (topic, author), the contiguous log 0..height.
LogSize(l) == Cardinality({pn \in (DOMAIN l) \X Seqs : pn[2] <= l[pn[1]]})
Logs == {l \in UNION {[P -> Seqs] : P \in SUBSET Pairs} : LogSize(l) <= MaxLocal}

\* get_log_heights(topic): author -> highest sequence number.
get_log_heights(l, t) ==
    [a \in {x \in Authors : <<t, x>> \in DOMAIN l} |-> l[<<t, a>>]]

\* get_log(author, topic, from): the items from `from` on, or None.
get_log(l, a, t, from) ==
    IF <<t, a>> \notin DOMAIN l THEN [some |-> FALSE]
    ELSE [some |-> TRUE,
          v |-> [i \in 1..(IF l[<<t, a>>] >= from THEN l[<<t, a>>] - from + 1 ELSE 0)
                   |-> Item(t, a, from + i - 1)]]

(***************************************************************************)
(* Client: sync_topics (manager.rs)                                        *)
(***************************************************************************)
Idle == [pc |-> "idle"]

RECURSIVE PickSeqsFromZero(_, _, _)
\* The requested seq taken as the position in the log read from lowest.
PickSeqsFromZero(lg, lowest, seqs) ==
    IF seqs = {} THEN <<>>
    ELSE LET seq == MinOf(seqs)
         IN (IF seq + 1 <= Len(lg) THEN <<lg[seq + 1]>> ELSE <<>>)
            \o PickSeqsFromZero(lg, lowest, seqs \ {seq})

RECURSIVE PickSeqs(_, _, _)
\* manager.rs 212-220: for each requested seq, the item at seq - lowest of the
\* log read from lowest, when the log reaches that far.
PickSeqs(lg, lowest, seqs) ==
    IF seqs = {} THEN <<>>
    ELSE LET seq == MinOf(seqs)
             index == seq - lowest
         IN (IF index + 1 <= Len(lg) THEN <<lg[index + 1]>> ELSE <<>>)
            \o PickSeqs(lg, lowest, seqs \ {seq})

\* manager.rs 199-221 for one author: one range read from the lowest seq.
MissingOps(l, t, a, seqs) ==
    IF seqs = {} THEN <<>>
    ELSE LET lowest == MinOf(seqs)
             got == get_log(l, a, t, lowest)
         IN IF got.some THEN PickSeqs(got.v, lowest, seqs) ELSE <<>>

RECURSIVE OpsOfAuthors(_, _, _, _)
OpsOfAuthors(l, t, missing, as) ==
    IF as = {} THEN <<>>
    ELSE LET a == CHOOSE x \in as : \A y \in as : AuthorRank(x) <= AuthorRank(y)
         IN MissingOps(l, t, a, missing[a]) \o OpsOfAuthors(l, t, missing, as \ {a})

RECURSIVE ReadsOfAuthors(_, _, _)
\* manager.rs 199-207: the range reads of one topic, one get_log per author
\* whose missing set has a lowest element, from that element on.
ReadsOfAuthors(t, missing, as) ==
    IF as = {} THEN <<>>
    ELSE LET a == CHOOSE x \in as : \A y \in as : AuthorRank(x) <= AuthorRank(y)
         IN (IF missing[a] = {} THEN <<>>
             ELSE << [topic |-> t, author |-> a, from |-> MinOf(missing[a])] >>)
            \o ReadsOfAuthors(t, missing, as \ {a})

\* The request of a call over the given topics (manager.rs 167-172).
BuildRequest(l, ts) == [t \in ts |-> get_log_heights(l, t)]

(***************************************************************************)
(* Client actions                                                          *)
(***************************************************************************)
\* A call in progress looks a topic up only while the topic waits in its
\* response; a change of any other topic is taken once the call has returned.
Observed(t) == sync.pc = "idle" \/ (sync.pc = "process" /\ t \in sync.todo)

\* subscribe: a new channel replaces whatever the topic had.
Subscribe(t) ==
    /\ Observed(t)
    /\ topics' = topics \cup {t}
    /\ UNCHANGED <<log, sync, settled>>
    /\ UNCHANGED relayVars
    /\ UNCHANGED restVars

\* unsubscribe: the topic's entry is removed.
Unsubscribe(t) ==
    /\ Observed(t)
    /\ t \in topics
    /\ topics' = topics \ {t}
    /\ UNCHANGED <<log, sync, settled>>
    /\ UNCHANGED relayVars
    /\ UNCHANGED restVars

\* Another publisher's store request, served whole by the relay.  The manager
\* reads the relay at its fetch and writes it at its publish only, so a store
\* that falls between the two is taken right before the publish.
OtherStore ==
    /\ srv = "up" /\ ~wtx.open
    /\ sync.pc = "idle" \/ (sync.pc = "process" /\ sync.todo = {})
    /\ \E batch \in Batches :
          /\ Cardinality(blobs) + Len(batch) <= MaxBlobs
          /\ CanStore(Committed, batch, now)
          /\ blobs' = StoreBatch(Committed, batch, now).blobs
          /\ watermarks' = StoreBatch(Committed, batch, now).watermarks
          /\ last' = Op("store", StoresBelow(Committed, batch))
    /\ settled' = {}
    /\ sync' = IF sync.pc = "idle" THEN sync ELSE [sync EXCEPT !.calm = FALSE]
    /\ UNCHANGED <<wtx, srv, now, log, topics>>
    /\ UNCHANGED restVars

\* sync_topics up to the fetch (manager.rs 167-174), called as one_iteration
\* calls it: over the topics subscribed at that moment.
Fetching ==
    /\ sync.pc = "idle" /\ topics # {} /\ srv = "up"
    /\ LET req == BuildRequest(log, topics)
           resp == get_blobs_for_topics(Committed, req)
       IN sync' = [pc |-> "process", req |-> req, resp |-> resp,
                   todo |-> DOMAIN resp, ops |-> <<>>, fwd |-> <<>>,
                   published |-> <<>>, result |-> "none", calm |-> TRUE,
                   skipped |-> {}, reads |-> <<>>, fetches |-> 1]
    /\ UNCHANGED <<log, topics, settled>>
    /\ UNCHANGED relayVars

\* A call of sync_topics whose caller's scheduling is left out.
SyncFetch == Fetching /\ UNCHANGED restVars

\* An error return that first publishes what the call has collected.
FailedAfterFlush(sy, why) ==
    [sy EXCEPT !.pc = "done", !.result = why, !.published = Append(@, sy.ops)]

\* The call returns an error; why names the request or read that failed.
Failed(sy, why) == [sy EXCEPT !.pc = "done", !.result = why]

\* The request is sent and fetch fails (manager.rs 174): the call returns the
\* error.
FetchFailing ==
    /\ sync.pc = "idle" /\ topics # {}
    /\ sync' = [pc |-> "done", req |-> BuildRequest(log, topics), resp |-> <<>>,
                todo |-> {}, ops |-> <<>>, fwd |-> <<>>,
                published |-> <<>>, result |-> "fetch_err", calm |-> TRUE,
                skipped |-> {}, reads |-> <<>>, fetches |-> 1]
    /\ UNCHANGED <<log, topics, settled>>
    /\ UNCHANGED relayVars

SyncFetchFail == FetchFailing /\ UNCHANGED restVars

\* get_log_heights fails for one of the topics (manager.rs 169-170): the call
\* returns the error with its request unfinished.
SyncHeightsFail ==
    /\ sync.pc = "idle" /\ topics # {}
    /\ sync' = [pc |-> "done", req |-> <<>>, resp |-> <<>>,
                todo |-> {}, ops |-> <<>>, fwd |-> <<>>,
                published |-> <<>>, result |-> "heights_err", calm |-> TRUE,
                skipped |-> {}, reads |-> <<>>, fetches |-> 0]
    /\ UNCHANGED <<log, topics, settled>>
    /\ UNCHANGED relayVars
    /\ UNCHANGED restVars

\* One topic of the response (manager.rs 177-222): without a sender the topic
\* is skipped whole; else its items are sent and its missing ops collected.
SyncTopic(t) ==
    /\ sync.pc = "process" /\ t \in sync.todo
    /\ LET r == sync.resp[t] IN
       IF t \notin topics
       THEN sync' = [sync EXCEPT !.todo = @ \ {t}, !.skipped = @ \cup {t}]
       ELSE sync' = [sync EXCEPT !.todo = @ \ {t},
                                 !.fwd = @ \o r.items,
                                 !.reads = @ \o ReadsOfAuthors(t, r.missing,
                                                                DOMAIN r.missing),
                                 !.ops = @ \o OpsOfAuthors(log, t, r.missing,
                                                            DOMAIN r.missing)]
    /\ UNCHANGED <<log, topics, settled>>
    /\ UNCHANGED relayVars
    /\ UNCHANGED restVars

\* get_log fails for a topic that has missing ops (manager.rs 203-207): the
\* topic's items were sent already, the call returns the error.
SyncTopicFail(t) ==
    /\ sync.pc = "process" /\ t \in sync.todo /\ t \in topics
    /\ DOMAIN sync.resp[t].missing # {}
    /\ sync' = [Failed(sync, "log_err") EXCEPT !.fwd = @ \o sync.resp[t].items]
    /\ UNCHANGED <<log, topics, settled>>
    /\ UNCHANGED relayVars
    /\ UNCHANGED restVars

\* publish is left out when nothing was collected.
PublishedUnlessEmpty(sy) ==
    IF sy.ops = <<>> THEN sy.published ELSE Append(sy.published, sy.ops)

\* One publish request per collected op.
PublishedPerItem(sy) == sy.published \o [i \in 1..Len(sy.ops) |-> <<sy.ops[i]>>]

\* manager.rs 224: publish is called with ops_to_publish, whatever it holds.
Published(sy) == Append(sy.published, sy.ops)

\* publish (manager.rs 224): one store request with every collected op.
SyncPublish ==
    /\ sync.pc = "process" /\ sync.todo = {}
    /\ srv = "up" /\ ~wtx.open
    /\ CanStore(Committed, sync.ops, now)
    /\ blobs' = StoreBatch(Committed, sync.ops, now).blobs
    /\ watermarks' = StoreBatch(Committed, sync.ops, now).watermarks
    /\ last' = Op("store", StoresBelow(Committed, sync.ops))
    /\ sync' = [sync EXCEPT !.pc = "done", !.result = "ok",
                            !.published = Published(sync)]
    /\ UNCHANGED <<wtx, srv, now, log, topics, settled>>
    /\ UNCHANGED restVars

\* publish fails; the request may or may not have been stored by the relay.
PublishFailing ==
    /\ sync.pc = "process" /\ sync.todo = {}
    /\ \/ UNCHANGED <<blobs, watermarks, last>>
       \/ /\ srv = "up" /\ ~wtx.open
          /\ CanStore(Committed, sync.ops, now)
          /\ blobs' = StoreBatch(Committed, sync.ops, now).blobs
          /\ watermarks' = StoreBatch(Committed, sync.ops, now).watermarks
          /\ last' = Op("store", StoresBelow(Committed, sync.ops))
    /\ sync' = [Failed(sync, "publish_err") EXCEPT !.published = Published(sync)]
    /\ UNCHANGED <<wtx, srv, now, log, topics, settled>>

SyncPublishFail == PublishFailing /\ UNCHANGED restVars

\* The pairs this call found in the shape of the convergence scenario: the relay
\* held nothing beyond the local height and lacked something below its watermark.
GapPairs(sy) ==
    {p \in ReqPairs(sy.req) :
        /\ \A it \in SeqToSet(sy.resp[p[1]].items) : it.author # p[2]
        /\ p[2] \in DOMAIN sy.resp[p[1]].missing}

\* The call returns to its caller.
Returning ==
    /\ sync.pc = "done"
    /\ sync' = Idle
    /\ settled' = IF sync.result = "ok" /\ sync.calm THEN GapPairs(sync) ELSE {}
    /\ UNCHANGED <<log, topics>>
    /\ UNCHANGED relayVars

SyncReturn == Returning /\ UNCHANGED restVars

\* mpsc::channel(100): the most items a delivery channel holds.
ChannelCapacity == 100

\* Both mutexes free, no relay selected, no topic snapshot, the topic's
\* channel empty.
NoLocks ==
    [mailboxes |-> FALSE, topics |-> FALSE, relay |-> "none", snapshot |-> {},
     queued |-> 0, own |-> 0, linked |-> TRUE, mid |-> {},
     fetched_from |-> "none", published_to |-> "none"]

\* No call has failed at its publish, or a call has returned Ok since.
NoLastCall == [result |-> "none"]

\* What the response reports missing, per topic and author.
MissingMap(resp) == [t \in DOMAIN resp |-> resp[t].missing]

\* What a call whose publish fails leaves to compare the next call with: the
\* topics it asked for, the missing sets it was given, the batch it tried to
\* publish, the topics it passed over, the relay's tables as they were when
\* the publish was sent and whether they were still those of its fetch.
Remembered(sy) ==
    [result |-> "publish_err", topics |-> DOMAIN sy.req,
     missing |-> MissingMap(sy.resp), batch |-> sy.ops,
     skipped |-> sy.skipped, relay |-> Committed, calm |-> sy.calm]

\* publish fails in a call whose caller will call again.
RetryPublishFail ==
    /\ PublishFailing
    /\ lastcall' = Remembered(sync)
    /\ UNCHANGED <<loopVars, deliv, node, locks, direct, mbox, lstore>>

\* The call returns to a caller that will call again (the loop's next cycle
\* on the same relay); a call that returns Ok leaves nothing to retry.
RetryReturn ==
    /\ Returning
    /\ lastcall' = IF sync.result = "ok" THEN NoLastCall ELSE lastcall
    /\ UNCHANGED <<loopVars, deliv, node, locks, direct, mbox, lstore>>

(***************************************************************************)
(* Client: the background loop (manager.rs spawn, one_iteration) and the   *)
(* calls that steer it (add, clear, trigger_sync)                          *)
(***************************************************************************)
Relays == {"m1", "m2"}

\* The topics subscribed to while the loop runs.
LoopTopics == {"t1"}

\* Most entries of the relay list.
MaxRelays == 3

\* Last instant of the loop's clock.
MaxTime == 3

\* Longest interval of a configuration.
MaxInterval == 2
Durations == 1..MaxInterval
Configs ==
    [success_interval : Durations, error_interval : Durations,
     min_interval : Durations]

\* mpsc::channel(1): the trigger channel holds one wake.
TriggerCapacity == 1

\* A trigger channel that holds two wakes.
SendUpToTwo(n) == IF n < 2 THEN n + 1 ELSE n

\* trigger.try_send(()): queued if the channel has room, else dropped.
try_send(n) == IF n < TriggerCapacity THEN n + 1 ELSE n

\* The index stays on the relay polled last.
SameIndex(i, n) == IF i >= n THEN 0 ELSE i

\* one_iteration 125-130: the index of the relay this cycle polls.
NextIndex(i, n) == IF i + 1 >= n THEN 0 ELSE i + 1

\* Every cycle schedules the success interval.
AlwaysSuccessInterval(outcome) == config.success_interval

\* one_iteration 132-156: the wait a cycle schedules, by how it ended.
IntervalFor(outcome) ==
    IF outcome = "ok" THEN config.success_interval ELSE config.error_interval

\* The floor is taken from the end of the wait, not from the cycle's start.
RestIgnoringStart(at, since) == 0

\* spawn 105-108: what is left of min_interval at the end of a wait.
Rest(at, since) ==
    IF at - since < config.min_interval THEN config.min_interval - (at - since)
    ELSE 0

\* The last n entries of a sequence.
LastN(q, n) == IF Len(q) <= n THEN q ELSE SubSeq(q, Len(q) - n + 1, Len(q))

NoCycle ==
    [outcome |-> "none", mailbox |-> "none", fetches |-> 0, publishes |-> 0,
     cleared |-> FALSE]

\* A registration that leaves out a relay the list already holds.
add_if_absent(m) ==
    /\ Len(mailboxes) < MaxRelays
    /\ mailboxes' = IF \E j \in 1..Len(mailboxes) : mailboxes[j] = m
                    THEN mailboxes ELSE Append(mailboxes, m)
    /\ hist' = [hist EXCEPT !.picks = <<>>, !.adds = @ + 1, !.cleared = FALSE]
    /\ UNCHANGED <<loop, trigger, clk, config>>
    /\ UNCHANGED <<relayVars, clientVars, deliv, node, lastcall, locks, direct, mbox, lstore>>

\* add: the relay is pushed onto the list.
add(m) ==
    /\ Len(mailboxes) < MaxRelays
    /\ mailboxes' = Append(mailboxes, m)
    /\ hist' = [hist EXCEPT !.picks = <<>>, !.adds = @ + 1, !.cleared = FALSE]
    /\ UNCHANGED <<loop, trigger, clk, config>>
    /\ UNCHANGED <<relayVars, clientVars, deliv, node, lastcall, locks, direct, mbox, lstore>>

\* A clear that keeps the first relay of the list.
clear_but_first ==
    /\ mailboxes' = IF Len(mailboxes) > 0 THEN <<Head(mailboxes)>> ELSE <<>>
    /\ hist' = [hist EXCEPT !.picks = <<>>, !.adds = 0, !.cleared = TRUE]
    /\ UNCHANGED <<loop, trigger, clk, config>>
    /\ UNCHANGED <<relayVars, clientVars, deliv, node, lastcall, locks, direct, mbox, lstore>>

\* clear: the list is emptied.
clear ==
    /\ mailboxes' = <<>>
    /\ hist' = [hist EXCEPT !.picks = <<>>, !.adds = 0, !.cleared = TRUE]
    /\ UNCHANGED <<loop, trigger, clk, config>>
    /\ UNCHANGED <<relayVars, clientVars, deliv, node, lastcall, locks, direct, mbox, lstore>>

\* trigger_sync: a wake is offered to the channel; the caller never waits.
trigger_sync ==
    /\ trigger' = try_send(trigger)
    /\ hist' = [hist EXCEPT !.dropped = @ \/ try_send(trigger) = trigger]
    /\ UNCHANGED <<mailboxes, loop, clk, config>>
    /\ UNCHANGED <<relayVars, clientVars, deliv, node, lastcall, locks, direct, mbox, lstore>>

\* What a starting cycle writes down: its start (spawn 93, 110) and the relay
\* one_iteration selects.
Started(ix) ==
    /\ loop' = [loop EXCEPT !.next_mailbox = ix, !.last_iteration = clk, !.pc = "run"]
    /\ hist' = [hist EXCEPT
                  !.prev_start = IF loop.pc = "spawned" THEN -1
                                 ELSE loop.last_iteration,
                  !.cycle = [outcome |-> "running",
                             mailbox |-> mailboxes[ix + 1],
                             fetches |-> 1, publishes |-> 0,
                             cleared |-> hist.cleared],
                  !.picks = LastN(Append(@, ix), Len(mailboxes))]

\* The loop is about to call one_iteration.
AtStart == loop.pc \in {"spawned", "ready"} /\ sync.pc = "idle"

\* one_iteration returns early (132-146): no relay to poll or no topic
\* subscribed; the wait that follows starts at once.
CycleSkip ==
    /\ AtStart
    /\ Len(mailboxes) = 0 \/ topics = {}
    /\ LET ix == NextIndex(loop.next_mailbox, Len(mailboxes))
           none == Len(mailboxes) = 0
       IN /\ loop' = [loop EXCEPT !.next_mailbox = ix, !.last_iteration = clk,
                                  !.pc = "wait",
                                  !.next_interval = IntervalFor("none"),
                                  !.deadline = clk + IntervalFor("none")]
          /\ hist' = [hist EXCEPT
                        !.prev_start = IF loop.pc = "spawned" THEN -1
                                       ELSE loop.last_iteration,
                        !.cycle = [outcome |-> IF none THEN "no_relay" ELSE "no_topic",
                                   mailbox |-> IF none THEN "none" ELSE mailboxes[ix + 1],
                                   fetches |-> 0, publishes |-> 0,
                                   cleared |-> hist.cleared],
                        !.picks = IF none THEN <<>>
                                  ELSE LastN(Append(@, ix), Len(mailboxes))]
    /\ UNCHANGED <<mailboxes, trigger, clk, config>>
    /\ UNCHANGED <<relayVars, clientVars, deliv, node, lastcall, locks, direct, mbox, lstore>>

\* one_iteration selects a relay and calls sync_topics, which fetches.
CycleFetch ==
    /\ AtStart /\ Len(mailboxes) > 0
    /\ Fetching
    /\ Started(NextIndex(loop.next_mailbox, Len(mailboxes)))
    /\ UNCHANGED <<mailboxes, trigger, clk, config>>
    /\ UNCHANGED <<deliv, node, lastcall, locks, direct, mbox, lstore>>

\* one_iteration selects a relay and calls sync_topics, whose fetch fails.
CycleFetchFail ==
    /\ AtStart /\ Len(mailboxes) > 0
    /\ FetchFailing
    /\ Started(NextIndex(loop.next_mailbox, Len(mailboxes)))
    /\ UNCHANGED <<mailboxes, trigger, clk, config>>
    /\ UNCHANGED <<deliv, node, lastcall, locks, direct, mbox, lstore>>

\* one_iteration 148-156: Ok or Err, whatever the error.
OutcomeOf(result) == IF result = "ok" THEN "ok" ELSE "err"

\* sync_topics returns to one_iteration (148-156), which returns the interval
\* to the loop; the wait of spawn 100 starts.
CycleEnd ==
    /\ loop.pc = "run"
    /\ Returning
    /\ LET outcome == OutcomeOf(sync.result) IN
       /\ loop' = [loop EXCEPT !.pc = "wait",
                               !.next_interval = IntervalFor(outcome),
                               !.deadline = clk + IntervalFor(outcome)]
       /\ hist' = [hist EXCEPT !.cycle.outcome = outcome,
                               !.cycle.publishes = Len(sync.published)]
    /\ UNCHANGED <<mailboxes, trigger, clk, config>>
    /\ UNCHANGED <<deliv, node, lastcall, locks, direct, mbox, lstore>>

\* A wait that only its timeout ends; a queued wake is taken then.
WakeAtDeadline ==
    /\ loop.pc = "wait"
    /\ clk >= loop.deadline
    /\ trigger' = IF trigger > 0 THEN trigger - 1 ELSE trigger
    /\ LET rest == Rest(clk, loop.last_iteration) IN
       loop' = [loop EXCEPT !.pc = IF rest > 0 THEN "floor" ELSE "ready",
                            !.deadline = IF rest > 0 THEN clk + rest ELSE 0]
    /\ hist' = [hist EXCEPT !.dropped = FALSE, !.orphan = (loop.handles = 0 /\ trigger = 0)]
    /\ UNCHANGED <<mailboxes, clk, config>>
    /\ UNCHANGED <<relayVars, clientVars, deliv, node, lastcall, locks, direct, mbox, lstore>>

\* spawn 100-108: the wait ends, by a wake taken from the channel or by the
\* timeout; what is left of min_interval since the cycle's start is slept out.
Wake ==
    /\ loop.pc = "wait"
    /\ trigger > 0 \/ clk >= loop.deadline
    /\ trigger' = IF trigger > 0 THEN trigger - 1 ELSE trigger
    /\ LET rest == Rest(clk, loop.last_iteration) IN
       loop' = [loop EXCEPT !.pc = IF rest > 0 THEN "floor" ELSE "ready",
                            !.deadline = IF rest > 0 THEN clk + rest ELSE 0]
    /\ hist' = [hist EXCEPT !.dropped = FALSE, !.orphan = (loop.handles = 0 /\ trigger = 0)]
    /\ UNCHANGED <<mailboxes, clk, config>>
    /\ UNCHANGED <<relayVars, clientVars, deliv, node, lastcall, locks, direct, mbox, lstore>>

\* spawn 107: the sleep to the floor ends.
FloorDone ==
    /\ loop.pc = "floor"
    /\ clk >= loop.deadline
    /\ loop' = [loop EXCEPT !.pc = "ready", !.deadline = 0]
    /\ UNCHANGED <<mailboxes, trigger, clk, config, hist>>
    /\ UNCHANGED <<relayVars, clientVars, deliv, node, lastcall, locks, direct, mbox, lstore>>

\* The loop's clock advances.
LoopTick ==
    /\ clk < MaxTime
    /\ clk' = clk + 1
    /\ UNCHANGED <<mailboxes, loop, trigger, config, hist>>
    /\ UNCHANGED <<relayVars, clientVars, deliv, node, lastcall, locks, direct, mbox, lstore>>

NoHist ==
    [prev_start |-> -1, cycle |-> NoCycle, picks |-> <<>>, adds |-> 0,
     cleared |-> FALSE, dropped |-> FALSE, orphan |-> FALSE, evicted |-> {}]

\* spawn 86-93: the task has been spawned, no relay is registered.
LoopInit ==
    /\ mailboxes = <<>>
    /\ loop = [pc |-> "spawned", next_mailbox |-> 0, next_interval |-> 0,
               deadline |-> 0, last_iteration |-> 0, handles |-> 1]
    /\ trigger = 0
    /\ clk = 0
    /\ config \in Configs
    /\ hist = NoHist

\* The loop left out: sync_topics is called by a caller that is not modelled.
NoLoop ==
    /\ mailboxes = <<>>
    /\ loop = [pc |-> "none", next_mailbox |-> 0, next_interval |-> 0,
               deadline |-> 0, last_iteration |-> 0, handles |-> 1]
    /\ trigger = 0
    /\ clk = 0
    /\ config = [success_interval |-> 1, error_interval |-> 1, min_interval |-> 1]
    /\ hist = NoHist

\* Most clones of the manager held outside the task.
MaxHandles == 2

\* The trigger senders alive: one in every clone of the manager held outside
\* the task, one in the manager the task owns (spawn 87-90).
Senders == loop.handles + 1

\* trigger_rx.recv() yields None: nothing queued and no sender left.
RecvNone == trigger = 0 /\ Senders = 0

\* spawn 100-102: the wait ends with Ok(None) and the loop breaks.
Exit ==
    /\ loop.pc = "wait" /\ RecvNone
    /\ loop' = [loop EXCEPT !.pc = "exited"]
    /\ UNCHANGED <<mailboxes, trigger, clk, config, hist>>
    /\ UNCHANGED <<relayVars, clientVars, deliv, node, lastcall, locks, direct, mbox, lstore>>

\* Mailboxes::clone (derive at 22): one more handle, with its own sender.
CloneHandle ==
    /\ loop.handles > 0 /\ loop.handles < MaxHandles
    /\ loop' = [loop EXCEPT !.handles = @ + 1]
    /\ UNCHANGED <<mailboxes, trigger, clk, config, hist>>
    /\ UNCHANGED <<relayVars, clientVars, deliv, node, lastcall, locks, direct, mbox, lstore>>

\* A handle is dropped, and its sender with it.
DropHandle ==
    /\ loop.handles > 0
    /\ loop' = [loop EXCEPT !.handles = @ - 1]
    /\ UNCHANGED <<mailboxes, trigger, clk, config, hist>>
    /\ UNCHANGED <<relayVars, clientVars, deliv, node, lastcall, locks, direct, mbox, lstore>>

\* The calls of the manager need a handle.
HeldAdd(m) == loop.handles > 0 /\ add(m)
HeldClear == loop.handles > 0 /\ clear
HeldTrigger == loop.handles > 0 /\ trigger_sync
HeldSubscribe(t) == loop.handles > 0 /\ Subscribe(t)
HeldUnsubscribe(t) == loop.handles > 0 /\ Unsubscribe(t)

(***************************************************************************)
(* Client: the delivery channels (manager.rs subscribe, sync_topics        *)
(* 189-197).  A channel is named by its topic and by the count of the      *)
(* subscribe call that made it.                                            *)
(***************************************************************************)
\* Most subscribe calls per topic.
MaxGen == 2

\* No channel was ever made.
NoDeliv ==
    [gen |-> [t \in Topics |-> 0], closed |-> {}, cur |-> "none", sender |-> 0,
     rest |-> <<>>, astray |-> FALSE]

\* The sender the topic map holds for a topic at this moment.
CurrentSender(t) == deliv.gen[t]

\* The sender of the next send: the clone taken at line 189.
ClonedSender == deliv.sender

\* A call about a topic's channel is followed where the running call of
\* sync_topics can still tell it from the same call made after it returned:
\* before the topic's sender is cloned and while the topic's items are sent.
Noticed(t) == Observed(t) \/ (sync.pc = "send" /\ deliv.cur = t)

\* subscribe: a new channel is made and put into the map, replacing the
\* topic's entry if there is one; the receiver goes to the caller.
subscribe(t) ==
    /\ Noticed(t)
    /\ deliv.gen[t] < MaxGen
    /\ topics' = topics \cup {t}
    /\ deliv' = [deliv EXCEPT !.gen[t] = @ + 1, !.closed = @ \ {t}]
    /\ UNCHANGED <<log, sync, settled>>
    /\ UNCHANGED <<relayVars, loopVars, node, lastcall, locks, direct, mbox, lstore>>

\* The holder of the receiver of a topic's newest channel drops it.
drop_receiver(t) ==
    /\ Noticed(t)
    /\ deliv.gen[t] > 0 /\ t \notin deliv.closed
    /\ deliv' = [deliv EXCEPT !.closed = @ \cup {t}]
    /\ UNCHANGED clientVars
    /\ UNCHANGED <<relayVars, loopVars, node, lastcall, locks, direct, mbox, lstore>>

\* A lookup that fails the call when the map has no sender for the topic.
TopicLookupOrFail(t) ==
    /\ sync.pc = "process" /\ t \in sync.todo
    /\ IF t \notin topics
       THEN /\ sync' = [Failed(sync, "no_sender") EXCEPT !.skipped = @ \cup {t}]
            /\ UNCHANGED deliv
       ELSE /\ sync' = [sync EXCEPT !.pc = "send"]
            /\ deliv' = [deliv EXCEPT !.cur = t, !.sender = CurrentSender(t),
                                      !.rest = sync.resp[t].items]
    /\ UNCHANGED <<log, topics, settled>>
    /\ UNCHANGED <<relayVars, loopVars, node, lastcall, locks, direct, mbox, lstore>>

\* sync_topics 189-193: the topic's sender is cloned out of the map, or the
\* topic is passed over when the map has none.
TopicLookup(t) ==
    /\ sync.pc = "process" /\ t \in sync.todo
    /\ IF t \notin topics
       THEN /\ sync' = [sync EXCEPT !.todo = @ \ {t}, !.skipped = @ \cup {t}]
            /\ UNCHANGED deliv
       ELSE /\ sync' = [sync EXCEPT !.pc = "send"]
            /\ deliv' = [deliv EXCEPT !.cur = t, !.sender = CurrentSender(t),
                                      !.rest = sync.resp[t].items]
    /\ UNCHANGED <<log, topics, settled>>
    /\ UNCHANGED <<relayVars, loopVars, node, lastcall, locks, direct, mbox, lstore>>

\* The cloned sender is of a channel that a later subscribe replaced.
Abandoned == ClonedSender # CurrentSender(deliv.cur)

\* sync_topics 195-197: one item is sent on the cloned sender.
SendItem ==
    /\ sync.pc = "send" /\ deliv.rest # <<>>
    /\ Abandoned \/ deliv.cur \notin deliv.closed
    /\ sync' = [sync EXCEPT !.fwd = Append(@, Head(deliv.rest))]
    /\ deliv' = [deliv EXCEPT !.rest = Tail(@), !.astray = @ \/ Abandoned]
    /\ UNCHANGED <<log, topics, settled>>
    /\ UNCHANGED <<relayVars, loopVars, node, lastcall, locks, direct, mbox, lstore>>

\* A failed send is passed over: the rest of the topic's items are dropped and
\* the call goes on with the topic's missing ops.
SendItemDropped ==
    /\ sync.pc = "send" /\ deliv.rest # <<>>
    /\ Abandoned \/ deliv.cur \in deliv.closed
    /\ sync' = sync
    /\ deliv' = [deliv EXCEPT !.rest = <<>>]
    /\ UNCHANGED <<log, topics, settled>>
    /\ UNCHANGED <<relayVars, loopVars, node, lastcall, locks, direct, mbox, lstore>>

\* sync_topics 196: the send fails because the channel's receiver is gone (an
\* abandoned channel's receiver may have been dropped by now); the call
\* returns the error.
SendItemFail ==
    /\ sync.pc = "send" /\ deliv.rest # <<>>
    /\ Abandoned \/ deliv.cur \in deliv.closed
    /\ sync' = Failed(sync, "send_err")
    /\ deliv' = [deliv EXCEPT !.cur = "none", !.sender = 0, !.rest = <<>>]
    /\ UNCHANGED <<log, topics, settled>>
    /\ UNCHANGED <<relayVars, loopVars, node, lastcall, locks, direct, mbox, lstore>>

\* sync_topics 199-221: the topic's items are sent; the ops the relay misses
\* are read from the local store.
TopicMissing ==
    /\ sync.pc = "send" /\ deliv.rest = <<>>
    /\ LET t == deliv.cur
           r == sync.resp[t]
       IN sync' = [sync EXCEPT !.pc = "process", !.todo = @ \ {t},
                               !.reads = @ \o ReadsOfAuthors(t, r.missing,
                                                              DOMAIN r.missing),
                               !.ops = @ \o OpsOfAuthors(log, t, r.missing,
                                                          DOMAIN r.missing)]
    /\ deliv' = [deliv EXCEPT !.cur = "none", !.sender = 0]
    /\ UNCHANGED <<log, topics, settled>>
    /\ UNCHANGED <<relayVars, loopVars, node, lastcall, locks, direct, mbox, lstore>>

\* get_log fails (203-207) after the topic's items were sent.
TopicMissingFail ==
    /\ sync.pc = "send" /\ deliv.rest = <<>>
    /\ DOMAIN sync.resp[deliv.cur].missing # {}
    /\ sync' = Failed(sync, "log_err")
    /\ deliv' = [deliv EXCEPT !.cur = "none", !.sender = 0]
    /\ UNCHANGED <<log, topics, settled>>
    /\ UNCHANGED <<relayVars, loopVars, node, lastcall, locks, direct, mbox, lstore>>

(***************************************************************************)
(* Node: the contact code (node.rs 210-297, local_store.rs 112-163,        *)
(* local_store/contact_code.rs, contact.rs)                                *)
(***************************************************************************)
AgentIds == {"ag1", "ag2"}
DeviceIds == {"dev1", "dev2"}

\* Last instant of the node's wall clock.
MaxNodeTime == 3

\* Most codes a node makes.
MaxCodes == 4

\* Longest contact_code_expiry.
MaxExpiry == 2

None == [none |-> TRUE]

\* contact.rs 57-69: the code as the string kept in CONTACT_CODE_TABLE; the
\* fields are written in the order of the tuple given to encode_cbor.
to_string(code) ==
    <<code.device_pubkey, code.inbox_topic, code.agent_id, code.share_intent>>

\* contact.rs 71-83: the code read back from its string.
from_str(str) ==
    [device_pubkey |-> str[1], agent_id |-> str[3], inbox_topic |-> str[2],
     share_intent |-> str[4]]

\* get_contact_code: the stored code, if there is one.
get_contact_code(nd) == IF nd.stored = None THEN None ELSE from_str(nd.stored)

\* A removal that leaves the table as it is.
RemoveNothing(active, topic) == active

\* remove_active_inbox_topic: every entry of the topic goes, whatever its
\* expiry.
remove_active_inbox_topic(active, topic) == {e \in active : e.topic # topic}

\* No stored code is taken for valid.
NeverValid(inbox_topic, at) == FALSE

\* node.rs 250: the stored code's inbox topic has not expired.
NotExpired(inbox_topic, at) == inbox_topic.expires_at > at

\* An inbox topic that is the same at every call.
ReusedTopic(nd) == 1

\* Topic::inbox(): a topic no earlier call has drawn.
FreshTopic(nd) == nd.made + 1

\* new_qr_code(share_intent, true): the inbox topic it makes and registers.
NewInbox(nd) == [expires_at |-> nd.now + nd.expiry, topic |-> FreshTopic(nd)]

\* new_qr_code: the code it returns.
new_qr_code(nd, share_intent) ==
    [device_pubkey |-> nd.device_id, agent_id |-> nd.agent_id,
     inbox_topic |-> NewInbox(nd), share_intent |-> share_intent]

\* The call written down in nd was a get_or_create_contact_code that found the
\* stored code's inbox topic expired (node.rs 250 false) and went on to 253.
FoundExpired(nd) ==
    /\ nd.called.op = "get"
    /\ nd.called.prev # None
    /\ nd.called.prev.inbox_topic.expires_at <= nd.called.at

\* What a call writes down about itself: when it was made, what it returned,
\* what the call before it returned and whether that call replaced an expired
\* code, and the active inbox topics it found.
Called(nd, op) ==
    [op |-> op, calls |-> IF nd.called.calls < 2 THEN nd.called.calls + 1 ELSE 2,
     prev |-> nd.called.ret, prev_op |-> nd.called.op, ret |-> None,
     at |-> nd.now, active_before |-> nd.active,
     prev_renewed |-> FoundExpired(nd)]

\* The tail of get_or_create_contact_code and of reset_contact_code: a new
\* code is made, its inbox topic registered, the code stored and returned.
MakeAndStore(nd, active, op) ==
    LET code == new_qr_code(nd, "AddContact") IN
    [nd EXCEPT !.made = @ + 1,
               !.active = active \cup {code.inbox_topic},
               !.stored = to_string(code),
               !.called = [Called(nd, op) EXCEPT !.ret = code]]

\* get_or_create_contact_code, no storage error.
get_or_create_contact_code ==
    LET stored_code == get_contact_code(node) IN
    /\ node' =
         IF stored_code = None
         THEN MakeAndStore(node, node.active, "get")
         ELSE IF stored_code.inbox_topic = None
         THEN [node EXCEPT !.called = [Called(node, "get")
                                         EXCEPT !.ret = stored_code]]
         ELSE IF NotExpired(stored_code.inbox_topic, node.now)
         THEN [node EXCEPT !.called = [Called(node, "get")
                                         EXCEPT !.ret = stored_code]]
         ELSE MakeAndStore(node,
                           remove_active_inbox_topic(node.active,
                                                     stored_code.inbox_topic.topic),
                           "get")
    /\ node'.made <= MaxCodes
    /\ UNCHANGED <<relayVars, clientVars, loopVars, deliv, lastcall, locks, direct, mbox, lstore>>

\* reset_contact_code, no storage error.
reset_contact_code ==
    LET stored_code == get_contact_code(node)
        kept == IF stored_code # None /\ stored_code.inbox_topic # None
                THEN remove_active_inbox_topic(node.active,
                                               stored_code.inbox_topic.topic)
                ELSE node.active
    IN
    /\ node.made < MaxCodes
    /\ node' = MakeAndStore(node, kept, "reset")
    /\ UNCHANGED <<relayVars, clientVars, loopVars, deliv, lastcall, locks, direct, mbox, lstore>>

\* The node's wall clock advances.
NodeTick ==
    /\ node.now < MaxNodeTime
    /\ node' = [node EXCEPT !.now = @ + 1]
    /\ UNCHANGED <<relayVars, clientVars, loopVars, deliv, lastcall, locks, direct, mbox, lstore>>

NotCalled ==
    [op |-> "none", calls |-> 0, prev |-> None, prev_op |-> "none", ret |-> None,
     at |-> 0, active_before |-> {}, prev_renewed |-> FALSE]

\* The node's contact codes left out.
NoNode ==
    [agent_id |-> "ag1", device_id |-> "dev1", expiry |-> 1, now |-> 0,
     made |-> 0, stored |-> None, active |-> {}, called |-> NotCalled]

\* A fresh node: no stored code, no active inbox topic.
NodeInit ==
    \E a \in AgentIds, d \in DeviceIds, e \in 1..MaxExpiry :
        node = [NoNode EXCEPT !.agent_id = a, !.device_id = d, !.expiry = e]

(***************************************************************************)
(* Client: a cycle of the loop step by step, with the mutexes of the relay *)
(* list and of the topic map, the awaits between them, and the callers     *)
(* that take the same mutexes (manager.rs 51-84, 124-227)                  *)
(***************************************************************************)
\* The guard of the topic map is kept for the rest of the loop body.
GuardKept(l) == l

\* manager.rs 189: the guard returned by topics.lock() is a temporary of the
\* let statement and is dropped at its end, before the first send.
GuardDropped(l) == [l EXCEPT !.topics = FALSE]

\* The cycle is suspended on the local store, on the relay or on a delivery
\* channel: get_log_heights (170), fetch (174), send (196), get_log (205),
\* publish (224).
AwaitsIO ==
    \/ sync.pc \in {"heights", "fetch", "send"}
    \/ sync.pc = "process" /\ sync.todo = {}

\* The send at 196 cannot go on: the channel of the cloned sender is full.
Blocked ==
    sync.pc = "send" /\ deliv.rest # <<>> /\ locks.own = ChannelCapacity

\* A caller's operation that ran while the cycle was suspended is noted.
Noted(l, op) == IF AwaitsIO THEN [l EXCEPT !.mid = @ \cup {op}] ELSE l

\* one_iteration 127: the cycle takes the mutex of the relay list.
LockMailboxes ==
    /\ loop.pc = "ready" /\ ~locks.mailboxes
    /\ loop' = [loop EXCEPT !.pc = "select"]
    /\ locks' = [locks EXCEPT !.mailboxes = TRUE, !.relay = "none",
                              !.snapshot = {}, !.mid = {},
                              !.fetched_from = "none", !.published_to = "none"]
    /\ UNCHANGED <<mailboxes, trigger, clk, config, hist>>
    /\ UNCHANGED <<relayVars, clientVars, deliv, node, lastcall, direct, mbox, lstore>>

\* one_iteration 125-139: the index advances, the relay at it is cloned out
\* of the list, the guard is dropped at the end of the block; with an empty
\* list the cycle is over.
SelectMailbox ==
    /\ loop.pc = "select"
    /\ LET ix == NextIndex(loop.next_mailbox, Len(mailboxes)) IN
       IF Len(mailboxes) = 0
       THEN /\ loop' = [loop EXCEPT !.pc = "wait", !.next_mailbox = ix]
            /\ locks' = [locks EXCEPT !.mailboxes = FALSE]
       ELSE /\ loop' = [loop EXCEPT !.pc = "topics", !.next_mailbox = ix]
            /\ locks' = [locks EXCEPT !.mailboxes = FALSE,
                                      !.relay = mailboxes[ix + 1]]
    /\ UNCHANGED <<mailboxes, trigger, clk, config, hist>>
    /\ UNCHANGED <<relayVars, clientVars, deliv, node, lastcall, direct, mbox, lstore>>

\* subscribed_topics 60: the cycle takes the mutex of the topic map.
LockTopics ==
    /\ loop.pc = "topics" /\ ~locks.topics
    /\ loop' = [loop EXCEPT !.pc = "snapshot"]
    /\ locks' = [locks EXCEPT !.topics = TRUE]
    /\ UNCHANGED <<mailboxes, trigger, clk, config, hist>>
    /\ UNCHANGED <<relayVars, clientVars, deliv, node, lastcall, direct, mbox, lstore>>

\* subscribed_topics 60, one_iteration 142-148: the keys of the map are
\* collected and the guard dropped; without a topic the cycle is over, else
\* sync_topics is called with the topics collected.
subscribed_topics ==
    /\ loop.pc = "snapshot"
    /\ locks' = [locks EXCEPT !.topics = FALSE, !.snapshot = topics]
    /\ IF topics = {}
       THEN /\ loop' = [loop EXCEPT !.pc = "wait"]
            /\ UNCHANGED sync
       ELSE /\ loop' = [loop EXCEPT !.pc = "run"]
            /\ sync' = [pc |-> "heights", req |-> <<>>, resp |-> <<>>,
                        todo |-> {}, ops |-> <<>>, fwd |-> <<>>,
                        published |-> <<>>, result |-> "none", calm |-> TRUE,
                        skipped |-> {}, reads |-> <<>>, fetches |-> 0]
    /\ UNCHANGED <<log, topics, settled>>
    /\ UNCHANGED <<mailboxes, trigger, clk, config, hist>>
    /\ UNCHANGED <<relayVars, deliv, node, lastcall, direct, mbox, lstore>>

\* sync_topics 167-172: the heights of the topics it was called with are read
\* from the local store.
ReadHeights ==
    /\ sync.pc = "heights"
    /\ sync' = [sync EXCEPT !.pc = "fetch",
                            !.req = BuildRequest(log, locks.snapshot)]
    /\ UNCHANGED <<log, topics, settled>>
    /\ UNCHANGED <<relayVars, loopVars, deliv, node, lastcall, locks, direct, mbox, lstore>>

\* sync_topics 174: the request goes to the relay cloned at the cycle's
\* start.
FetchFromSelected ==
    /\ sync.pc = "fetch" /\ srv = "up"
    /\ LET resp == get_blobs_for_topics(Committed, sync.req) IN
       sync' = [sync EXCEPT !.pc = "process", !.resp = resp,
                            !.todo = DOMAIN resp, !.fetches = @ + 1]
    /\ locks' = [locks EXCEPT !.fetched_from = locks.relay]
    /\ UNCHANGED <<log, topics, settled>>
    /\ UNCHANGED <<relayVars, loopVars, deliv, node, lastcall, direct, mbox, lstore>>

\* sync_topics 189: the cycle takes the mutex of the topic map for a topic of
\* the response.
LockForLookup(t) ==
    /\ sync.pc = "process" /\ t \in sync.todo /\ ~locks.topics
    /\ sync' = [sync EXCEPT !.pc = "lookup"]
    /\ deliv' = [deliv EXCEPT !.cur = t]
    /\ locks' = [locks EXCEPT !.topics = TRUE]
    /\ UNCHANGED <<log, topics, settled>>
    /\ UNCHANGED <<relayVars, loopVars, node, lastcall, direct, mbox, lstore>>

\* sync_topics 189-193: under the mutex the topic's sender is cloned, or the
\* topic is passed over; the guard goes with the statement.
CloneSender ==
    /\ sync.pc = "lookup"
    /\ LET t == deliv.cur IN
       IF t \notin topics
       THEN /\ sync' = [sync EXCEPT !.pc = "process", !.todo = @ \ {t},
                                    !.skipped = @ \cup {t}]
            /\ deliv' = [deliv EXCEPT !.cur = "none"]
            /\ locks' = GuardDropped(locks)
       ELSE /\ sync' = [sync EXCEPT !.pc = "send"]
            /\ deliv' = [deliv EXCEPT !.rest = sync.resp[t].items]
            /\ locks' = GuardDropped([locks EXCEPT !.own = locks.queued,
                                                   !.linked = TRUE])
    /\ UNCHANGED <<log, topics, settled>>
    /\ UNCHANGED <<relayVars, loopVars, node, lastcall, direct, mbox, lstore>>

\* sync_topics 196: one item goes into the channel of the cloned sender,
\* which has room for it.
SendToChannel ==
    /\ sync.pc = "send" /\ deliv.rest # <<>>
    /\ locks.own < ChannelCapacity
    /\ sync' = [sync EXCEPT !.fwd = Append(@, Head(deliv.rest))]
    /\ deliv' = [deliv EXCEPT !.rest = Tail(@)]
    /\ locks' = [locks EXCEPT !.own = @ + 1,
                              !.queued = IF locks.linked THEN @ + 1 ELSE @]
    /\ UNCHANGED <<log, topics, settled>>
    /\ UNCHANGED <<relayVars, loopVars, node, lastcall, direct, mbox, lstore>>

\* sync_topics 199-221: the topic's items are sent; the ops the relay misses
\* are read from the local store.
ReadMissing ==
    /\ sync.pc = "send" /\ deliv.rest = <<>>
    /\ LET t == deliv.cur
           r == sync.resp[t]
       IN sync' = [sync EXCEPT !.pc = "process", !.todo = @ \ {t},
                               !.reads = @ \o ReadsOfAuthors(t, r.missing,
                                                              DOMAIN r.missing),
                               !.ops = @ \o OpsOfAuthors(log, t, r.missing,
                                                          DOMAIN r.missing)]
    /\ deliv' = [deliv EXCEPT !.cur = "none"]
    /\ UNCHANGED <<log, topics, settled>>
    /\ UNCHANGED <<relayVars, loopVars, node, lastcall, locks, direct, mbox, lstore>>

\* sync_topics 224: the batch goes to the relay cloned at the cycle's start.
PublishToSelected ==
    /\ sync.pc = "process" /\ sync.todo = {}
    /\ srv = "up" /\ ~wtx.open
    /\ CanStore(Committed, sync.ops, now)
    /\ blobs' = StoreBatch(Committed, sync.ops, now).blobs
    /\ watermarks' = StoreBatch(Committed, sync.ops, now).watermarks
    /\ last' = Op("store", StoresBelow(Committed, sync.ops))
    /\ sync' = [sync EXCEPT !.pc = "done", !.result = "ok",
                            !.published = Published(sync)]
    /\ locks' = [locks EXCEPT !.published_to = locks.relay]
    /\ UNCHANGED <<wtx, srv, now, log, topics, settled>>
    /\ UNCHANGED <<loopVars, deliv, node, lastcall, direct, mbox, lstore>>

\* sync_topics returns to one_iteration and one_iteration to the loop, which
\* waits (spawn 100).
EndOfCycle ==
    /\ loop.pc = "run" /\ sync.pc = "done"
    /\ sync' = Idle
    /\ loop' = [loop EXCEPT !.pc = "wait"]
    /\ UNCHANGED <<log, topics, settled>>
    /\ UNCHANGED <<mailboxes, trigger, clk, config, hist>>
    /\ UNCHANGED <<relayVars, deliv, node, lastcall, locks, direct, mbox, lstore>>

\* spawn 100-110: the wait and the sleep to the floor are over.
NextCycle ==
    /\ loop.pc = "wait"
    /\ loop' = [loop EXCEPT !.pc = "ready"]
    /\ UNCHANGED <<mailboxes, trigger, clk, config, hist>>
    /\ UNCHANGED <<relayVars, clientVars, deliv, node, lastcall, locks, direct, mbox, lstore>>

\* add (51-53): under the mutex of the relay list.
LockedAdd(m) ==
    /\ ~locks.mailboxes
    /\ Len(mailboxes) < MaxRelays - 1
    /\ mailboxes' = Append(mailboxes, m)
    /\ locks' = Noted(locks, "add")
    /\ UNCHANGED <<loop, trigger, clk, config, hist>>
    /\ UNCHANGED <<relayVars, clientVars, deliv, node, lastcall, direct, mbox, lstore>>

\* clear (55-57): under the mutex of the relay list.
LockedClear ==
    /\ ~locks.mailboxes
    /\ mailboxes' = <<>>
    /\ locks' = Noted(locks, "clear")
    /\ UNCHANGED <<loop, trigger, clk, config, hist>>
    /\ UNCHANGED <<relayVars, clientVars, deliv, node, lastcall, direct, mbox, lstore>>

\* subscribe (67-76): under the mutex of the topic map, a new and empty
\* channel replaces the topic's; a sender cloned before keeps the old one.
LockedSubscribe(t) ==
    /\ ~locks.topics
    /\ topics' = topics \cup {t}
    /\ locks' = [Noted(locks, "subscribe") EXCEPT !.queued = 0, !.linked = FALSE]
    /\ UNCHANGED <<log, sync, settled>>
    /\ UNCHANGED <<relayVars, loopVars, deliv, node, lastcall, direct, mbox, lstore>>

\* unsubscribe (78-83): under the mutex of the topic map, the topic's sender
\* is dropped; a sender cloned before keeps the channel.
LockedUnsubscribe(t) ==
    /\ ~locks.topics
    /\ t \in topics
    /\ topics' = topics \ {t}
    /\ locks' = [Noted(locks, "unsubscribe") EXCEPT !.queued = 0, !.linked = FALSE]
    /\ UNCHANGED <<log, sync, settled>>
    /\ UNCHANGED <<relayVars, loopVars, deliv, node, lastcall, direct, mbox, lstore>>

\* The holder of the receiver of the channel the cycle sends on takes an
\* item out of it.
Receive ==
    /\ sync.pc = "send" /\ locks.own > 0
    /\ locks' = [locks EXCEPT !.own = @ - 1,
                              !.queued = IF locks.linked THEN @ - 1 ELSE @]
    /\ UNCHANGED <<relayVars, clientVars, loopVars, deliv, node, lastcall, direct, mbox, lstore>>

(***************************************************************************)
(* Client: sync_topics called by a user of the manager (manager.rs 162:    *)
(* pub, &self) on the handle that spawn returns, next to the loop's calls  *)
(***************************************************************************)
\* The user's call up to the fetch (167-174), over the topics it was given.
DirectFetch ==
    /\ direct.pc = "idle" /\ srv = "up"
    /\ \E ts \in (SUBSET Topics) \ {{}} :
          LET req == BuildRequest(log, ts)
              resp == get_blobs_for_topics(Committed, req)
          IN direct' = [pc |-> "process", req |-> req, resp |-> resp,
                        todo |-> DOMAIN resp, ops |-> <<>>, fwd |-> <<>>,
                        published |-> <<>>, result |-> "none", calm |-> TRUE,
                        skipped |-> {}, reads |-> <<>>, fetches |-> 1]
    /\ UNCHANGED <<relayVars, clientVars, loopVars, deliv, node, lastcall, locks, mbox, lstore>>

\* One topic of the user's call (177-222).
DirectTopic(t) ==
    /\ direct.pc = "process" /\ t \in direct.todo
    /\ LET r == direct.resp[t] IN
       IF t \notin topics
       THEN direct' = [direct EXCEPT !.todo = @ \ {t}, !.skipped = @ \cup {t}]
       ELSE direct' = [direct EXCEPT
                         !.todo = @ \ {t},
                         !.fwd = @ \o r.items,
                         !.reads = @ \o ReadsOfAuthors(t, r.missing,
                                                        DOMAIN r.missing),
                         !.ops = @ \o OpsOfAuthors(log, t, r.missing,
                                                    DOMAIN r.missing)]
    /\ UNCHANGED <<relayVars, clientVars, loopVars, deliv, node, lastcall, locks, mbox, lstore>>

\* The publish of the user's call (224).
DirectPublish ==
    /\ direct.pc = "process" /\ direct.todo = {}
    /\ srv = "up" /\ ~wtx.open
    /\ CanStore(Committed, direct.ops, now)
    /\ blobs' = StoreBatch(Committed, direct.ops, now).blobs
    /\ watermarks' = StoreBatch(Committed, direct.ops, now).watermarks
    /\ last' = Op("store", StoresBelow(Committed, direct.ops))
    /\ direct' = [direct EXCEPT !.pc = "done", !.result = "ok",
                                !.published = Published(direct)]
    /\ UNCHANGED <<wtx, srv, now>>
    /\ UNCHANGED <<clientVars, loopVars, deliv, node, lastcall, locks, mbox, lstore>>

\* The user's call returns.
DirectReturn ==
    /\ direct.pc = "done"
    /\ direct' = Idle
    /\ UNCHANGED <<relayVars, clientVars, loopVars, deliv, node, lastcall, locks, mbox, lstore>>

(***************************************************************************)
(* Node: the LocalStore database (local_store.rs, local_store/impls.rs).   *)
(* Every method runs in one write transaction, so each is one step.  Bytes *)
(* and the timestamp are narrower than in the code: a byte holds ByteBase  *)
(* values, the nanosecond count is a signed integer of NanoBytes bytes.    *)
(***************************************************************************)
\* Values of one byte (256 in the code).
ByteBase == 4

\* Bytes of the nanosecond timestamp (8 in the code).
NanoBytes == 2

\* Bytes of a topic id (32 in the code).
TopicBytes == 2

\* Most rows of ACTIVE_INBOXES_TABLE.
MaxActive == 2

\* Number of values of the timestamp's integer type (2^64 for the i64).
NanoRange == ByteBase ^ NanoBytes

\* i64::MIN and i64::MAX at this width.
MinNanos == 0 - (NanoRange \div 2)
MaxNanos == (NanoRange \div 2) - 1

\* contact.rs 51: an expiry date is within the range expressible by
\* DateTime::from_timestamp_nanos.  The dates the calls are given: the first
\* and the last of the range, the instant before the epoch, the epoch, and
\* dates whose high and low bytes order differently.
Expiries == {MinNanos, 0 - 1, 0, 1, 3, 4, MaxNanos}

\* Topic::new([0; 32]).
ZeroTopic == [i \in 1..TopicBytes |-> 0]

\* A topic id whose every byte is the largest.
MaxTopic == [i \in 1..TopicBytes |-> ByteBase - 1]

\* The topic ids the calls are given.
TopicIds ==
    {ZeroTopic, [ZeroTopic EXCEPT ![TopicBytes] = 1], [ZeroTopic EXCEPT ![1] = 1]}

InboxTopics == [expires_at : Expiries, topic : TopicIds]

\* PrivateKey::new(): the keys the generator can draw.
RandomKeys == 1..2

\* A field of IDENTITY_TABLE that has no row.
Absent == 0

\* DateTime::timestamp_nanos_opt: the nanoseconds since the epoch, nothing
\* when they do not fit the integer.
timestamp_nanos_opt(t) == IF t \in MinNanos..MaxNanos THEN {t} ELSE {}

\* impls.rs 55-59: .map(|n| n.max(0)).unwrap_or(0).
nanos(expires_at) ==
    LET opt == timestamp_nanos_opt(expires_at)
    IN IF opt = {} THEN 0 ELSE MaxOf({0} \cup opt)

\* i64::to_le_bytes: the two's complement, lowest byte first.
to_le_bytes(n) ==
    LET u == n % NanoRange
    IN [i \in 1..NanoBytes |-> (u \div (ByteBase ^ (i - 1))) % ByteBase]

\* i64::to_be_bytes: the two's complement, highest byte first.
to_be_bytes(n) ==
    LET u == n % NanoRange
    IN [i \in 1..NanoBytes |-> (u \div (ByteBase ^ (NanoBytes - i))) % ByteBase]

\* The unsigned number whose digits are the bytes, highest first.
RECURSIVE be_value(_)
be_value(data) ==
    IF data = <<>> THEN 0
    ELSE be_value(SubSeq(data, 1, Len(data) - 1)) * ByteBase + data[Len(data)]

\* i64::from_be_bytes.
from_be_bytes(data) ==
    LET u == be_value(data)
    IN IF u > MaxNanos THEN u - NanoRange ELSE u

\* impls.rs 52-66: the timestamp's bytes, then the topic's.
as_bytes(value) == to_be_bytes(nanos(value.expires_at)) \o value.topic

\* impls.rs 40-50.
from_bytes(data) ==
    [expires_at |-> from_be_bytes(SubSeq(data, 1, NanoBytes)),
     topic |-> SubSeq(data, NanoBytes + 1, NanoBytes + TopicBytes)]

\* Ord of integers.
IntCmp(x, y) == IF x < y THEN "Less" ELSE IF x = y THEN "Equal" ELSE "Greater"

\* Ord of byte slices and arrays: the first byte that differs decides, then
\* the length.
SliceCmp(d1, d2) ==
    LET m == IF Len(d1) < Len(d2) THEN Len(d1) ELSE Len(d2)
        diff == {i \in 1..m : d1[i] # d2[i]}
    IN IF diff = {} THEN IntCmp(Len(d1), Len(d2))
       ELSE IntCmp(d1[MinOf(diff)], d2[MinOf(diff)])

\* impls.rs 15-19: redb orders the keys of the table by their bytes.
compare(data1, data2) == SliceCmp(data1, data2)

\* The order of two topics: that of their ids.
TopicCmp(t1, t2) == SliceCmp(t1, t2)

\* contact.rs 47-54: the derived Ord, expires_at, then topic.
cmp(v1, v2) ==
    IF v1.expires_at # v2.expires_at
    THEN IntCmp(v1.expires_at, v2.expires_at)
    ELSE TopicCmp(v1.topic, v2.topic)

NoIdentity == [private_key |-> Absent, agent_id |-> Absent]

NoLocalStore ==
    [open |-> FALSE, identity |-> NoIdentity, active |-> {}, last |-> [op |-> "none"]]

\* Every call finds the table without identity.
always_uninitialized(identity) == TRUE

\* local_store.rs 58-59.
uninitialized(identity) ==
    identity.private_key = Absent /\ identity.agent_id = Absent

\* local_store.rs 50-69: the identity table after the transaction, for the
\* keys generated at lines 51-52.
ensure_initialized(identity, private_key, agent_id) ==
    IF uninitialized(identity)
    THEN [private_key |-> private_key, agent_id |-> agent_id]
    ELSE identity

\* local_store.rs 39-47: the database is created or opened, then initialized.
LsNew ==
    /\ ~lstore.open
    /\ \E private_key \in RandomKeys, agent_id \in RandomKeys :
        lstore' = [lstore EXCEPT
            !.open = TRUE,
            !.identity = ensure_initialized(@, private_key, agent_id),
            !.last = [op |-> "new", found |-> lstore.identity,
                      private_key |-> private_key, agent_id |-> agent_id]]
    /\ UNCHANGED <<relayVars, clientVars, loopVars, deliv, node, lastcall, locks, direct, mbox>>

\* local_store.rs 40, 44: Database::create or the transaction fails; nothing
\* is committed and no store is returned.
LsNewFails ==
    /\ ~lstore.open
    /\ lstore' = [lstore EXCEPT !.last = [op |-> "new_err", found |-> lstore.identity]]
    /\ UNCHANGED <<relayVars, clientVars, loopVars, deliv, node, lastcall, locks, direct, mbox>>

\* local_store.rs 50-69, called on a store that is open.
LsEnsure ==
    /\ lstore.open
    /\ \E private_key \in RandomKeys, agent_id \in RandomKeys :
        lstore' = [lstore EXCEPT
            !.identity = ensure_initialized(@, private_key, agent_id),
            !.last = [op |-> "ensure_initialized", found |-> lstore.identity,
                      private_key |-> private_key, agent_id |-> agent_id]]
    /\ UNCHANGED <<relayVars, clientVars, loopVars, deliv, node, lastcall, locks, direct, mbox>>

\* The last clone of the store is dropped: the database is closed, the file
\* stays.
LsDrop ==
    /\ lstore.open
    /\ lstore' = [lstore EXCEPT !.open = FALSE, !.last = [op |-> "drop"]]
    /\ UNCHANGED <<relayVars, clientVars, loopVars, deliv, node, lastcall, locks, direct, mbox>>

\* local_store.rs 112-120: the row is keyed by the value's bytes.
LsAdd ==
    /\ lstore.open
    /\ \E topic \in InboxTopics :
        /\ Cardinality(lstore.active \cup {as_bytes(topic)}) <= MaxActive
        /\ lstore' = [lstore EXCEPT
               !.active = @ \cup {as_bytes(topic)},
               !.last = [op |-> "add", topic |-> topic]]
    /\ UNCHANGED <<relayVars, clientVars, loopVars, deliv, node, lastcall, locks, direct, mbox>>

\* A limit whose topic id is the largest.
limit_max(expires_at) == [expires_at |-> expires_at, topic |-> MaxTopic]

\* local_store.rs 129-132.
limit(expires_at) == [expires_at |-> expires_at, topic |-> ZeroTopic]

\* local_store.rs 133: retain_in(..limit, |_, _| false) removes every row
\* whose key is below the limit's in the table's order.
retain_in(table, expires_at) ==
    {k \in table : compare(k, as_bytes(limit(expires_at))) # "Less"}

\* local_store.rs 122-137.
LsPrune ==
    /\ lstore.open
    /\ \E expires_at \in Expiries :
        lstore' = [lstore EXCEPT
            !.active = retain_in(@, expires_at),
            !.last = [op |-> "prune", expires_at |-> expires_at,
                      before |-> lstore.active]]
    /\ UNCHANGED <<relayVars, clientVars, loopVars, deliv, node, lastcall, locks, direct, mbox>>

\* local_store.rs 139-163: every row of the topic goes, whatever its expiry.
LsRemove ==
    /\ lstore.open
    /\ \E topic \in TopicIds :
        lstore' = [lstore EXCEPT
            !.active = {k \in @ : from_bytes(k).topic # topic},
            !.last = [op |-> "remove", topic |-> topic]]
    /\ UNCHANGED <<relayVars, clientVars, loopVars, deliv, node, lastcall, locks, direct, mbox>>

\* impls.rs 81-84: a value written as a key and read back.
roundtrip(topic) == from_bytes(as_bytes(topic))

\* impls.rs 97-104: two values go through the encoding before they are
\* compared.
LsRoundtrip ==
    /\ lstore.last.op = "input"
    /\ lstore' = [lstore EXCEPT
           !.last = [op |-> "roundtrip", v1 |-> roundtrip(lstore.last.v1),
                     v2 |-> roundtrip(lstore.last.v2),
                     in1 |-> lstore.last.v1, in2 |-> lstore.last.v2]]
    /\ UNCHANGED <<relayVars, clientVars, loopVars, deliv, node, lastcall, locks, direct, mbox>>

\* Two values are compared as values and as keys of the table
\* (contact.rs 47, impls.rs 16-18, 105-108).
LsCompare ==
    /\ lstore.last.op \in {"input", "roundtrip"}
    /\ lstore' = [lstore EXCEPT
           !.last = [op |-> "cmp", v1 |-> lstore.last.v1, v2 |-> lstore.last.v2,
                     ord |-> cmp(lstore.last.v1, lstore.last.v2),
                     bytes |-> compare(as_bytes(lstore.last.v1),
                                       as_bytes(lstore.last.v2))]]
    /\ UNCHANGED <<relayVars, clientVars, loopVars, deliv, node, lastcall, locks, direct, mbox>>

(***************************************************************************)
(* App: the local mailbox server (src-tauri mailbox.rs).  The calls hold   *)
(* the state's mutex from start to end, so each is one step.               *)
(***************************************************************************)
\* Most server tasks whose handle nobody holds.
MaxOrphans == 2

\* Most server tasks spawned.
MaxSpawned == 6

\* The state is None, no task was ever spawned.
NoMailbox ==
    [state |-> "None", held |-> "none", orphans |-> 0, registered |-> 0,
     spawned |-> 0, call |-> "none", ret |-> "none"]

\* start_local_mailbox 19-21: the state is Some, nothing is done.
StartWhileRunning ==
    /\ mbox.state = "Some"
    /\ mbox' = [mbox EXCEPT !.call = "start_noop", !.ret = "Ok"]
    /\ UNCHANGED <<relayVars, clientVars, loopVars, deliv, node, lastcall, locks, direct, lstore>>

\* start_local_mailbox 25: local_data_dir()? fails before anything is spawned.
StartNoPath ==
    /\ mbox.state = "None"
    /\ mbox' = [mbox EXCEPT !.call = "start_nopath", !.ret = "Err"]
    /\ UNCHANGED <<relayVars, clientVars, loopVars, deliv, node, lastcall, locks, direct, lstore>>

\* start_local_mailbox 30-54: the server task is spawned, the service is
\* registered, the state becomes Some(stop_signal, server).
StartOk ==
    /\ mbox.state = "None" /\ mbox.spawned < MaxSpawned
    /\ mbox' = [mbox EXCEPT !.state = "Some", !.held = "running",
                            !.registered = @ + 1, !.spawned = @ + 1,
                            !.call = "start", !.ret = "Ok"]
    /\ UNCHANGED <<relayVars, clientVars, loopVars, deliv, node, lastcall, locks, direct, lstore>>

\* start_local_mailbox 30-42: the server task is spawned, then register(..)?
\* fails: the call returns the error, dropping the task's JoinHandle (the task
\* is detached) and the stop sender; the state stays None.
StartRegisterFail ==
    /\ mbox.state = "None" /\ mbox.spawned < MaxSpawned
    /\ mbox.orphans < MaxOrphans
    /\ mbox' = [mbox EXCEPT !.orphans = @ + 1, !.spawned = @ + 1,
                            !.call = "start", !.ret = "Err"]
    /\ UNCHANGED <<relayVars, clientVars, loopVars, deliv, node, lastcall, locks, direct, lstore>>

\* A detached server task ends: spawn_server returned an error (the address
\* is in use), or its stop future, whose sender is gone, made it shut down.
OrphanEnds ==
    /\ mbox.orphans > 0
    /\ mbox' = [mbox EXCEPT !.orphans = @ - 1]
    /\ UNCHANGED <<relayVars, clientVars, loopVars, deliv, node, lastcall, locks, direct, lstore>>

\* The task whose handle the state holds ends by itself: spawn_server
\* returned an error (30-35 log it).
ServerEnds ==
    /\ mbox.held = "running"
    /\ mbox' = [mbox EXCEPT !.held = "finished"]
    /\ UNCHANGED <<relayVars, clientVars, loopVars, deliv, node, lastcall, locks, direct, lstore>>

\* stop_local_mailbox 62-77: the state is taken, the stop signal sent, the
\* task awaited, the service type unregistered.
StopRunning ==
    /\ mbox.state = "Some"
    /\ mbox' = [mbox EXCEPT !.state = "None", !.held = "none",
                            !.registered = 0,
                            !.call = "stop", !.ret = "Ok"]
    /\ UNCHANGED <<relayVars, clientVars, loopVars, deliv, node, lastcall, locks, direct, lstore>>

\* stop_local_mailbox 62-65: the state is None, a warning is logged.
StopWhileStopped ==
    /\ mbox.state = "None"
    /\ mbox' = [mbox EXCEPT !.call = "stop_noop", !.ret = "Ok"]
    /\ UNCHANGED <<relayVars, clientVars, loopVars, deliv, node, lastcall, locks, direct, lstore>>

EmptyLog == [p \in {} |-> 0]

ClientInit ==
    /\ log \in Logs
    /\ topics = {}
    /\ sync = Idle
    /\ settled = {}

RelayInit ==
    /\ blobs = {}
    /\ watermarks = EmptyWatermarks
    /\ wtx = NoTxn
    /\ srv = "up"
    /\ now = T0
    /\ last = Op("init_db", FALSE)

Init ==
    /\ RelayInit /\ ClientInit /\ NoLoop /\ deliv = NoDeliv /\ node = NoNode
    /\ lastcall = NoLastCall /\ locks = NoLocks /\ direct = Idle /\ mbox = NoMailbox /\ lstore = NoLocalStore

\* The relay on its own: a manager that holds nothing and never calls.
RelayOnlyInit == Init /\ log = EmptyLog

\* The relay with its publishers and fetchers, no retention sweep.
StoreNext ==
    \/ StoreBegin
    \/ StoreCommit
    \/ StoreAbort
    \/ Fetch
    \/ Crash
    \/ Restart
SpecStore == RelayOnlyInit /\ [][StoreNext]_vars

\* The relay with the retention sweep and the clock.
RelayNext ==
    \/ StoreBegin
    \/ StoreCommit
    \/ StoreAbort
    \/ Crash
    \/ Restart
    \/ Cleanup
    \/ CleanupFail
    \/ Tick
SpecRelay == RelayOnlyInit /\ [][RelayNext]_vars

\* The manager reconciling with one relay that other publishers write to.
Next ==
    \/ \E t \in Topics : Subscribe(t)
    \/ \E t \in Topics : Unsubscribe(t)
    \/ OtherStore
    \/ SyncFetch
    \/ SyncHeightsFail
    \/ SyncFetchFail
    \/ \E t \in Topics : SyncTopic(t)
    \/ \E t \in Topics : SyncTopicFail(t)
    \/ SyncPublish
    \/ SyncPublishFail
    \/ SyncReturn
Spec == Init /\ [][Next]_vars

\* The topics subscribed to where calls are compared with one another.
RetryTopics == {"t1"}

\* Calls of sync_topics that follow one another on one relay; a publish may
\* fail, with or without the relay having stored the batch.
RetryNext ==
    \/ \E t \in RetryTopics : Subscribe(t)
    \/ \E t \in RetryTopics : Unsubscribe(t)
    \/ OtherStore
    \/ SyncFetch
    \/ \E t \in RetryTopics : SyncTopic(t)
    \/ SyncPublish
    \/ RetryPublishFail
    \/ RetryReturn
\* The local store holds logs of the one topic.
RetryInit == Init /\ \A p \in DOMAIN log : p[1] \in RetryTopics
SpecRetry == RetryInit /\ [][RetryNext]_vars

\* The task is spawned on a manager that has no relay, no topic and an empty
\* local store.
LoopStart ==
    /\ RelayInit /\ ClientInit /\ log = EmptyLog /\ LoopInit
    /\ deliv = NoDeliv /\ node = NoNode /\ lastcall = NoLastCall /\ locks = NoLocks /\ direct = Idle /\ mbox = NoMailbox /\ lstore = NoLocalStore

\* The manager and its background loop, polling relays that hold nothing,
\* with a local store that holds nothing.
LoopNext ==
    \/ \E m \in Relays : add(m)
    \/ clear
    \/ trigger_sync
    \/ \E t \in LoopTopics : Subscribe(t)
    \/ \E t \in LoopTopics : Unsubscribe(t)
    \/ CycleSkip
    \/ CycleFetch
    \/ CycleFetchFail
    \/ \E t \in Topics : SyncTopic(t)
    \/ SyncPublish
    \/ SyncPublishFail
    \/ CycleEnd
    \/ Wake
    \/ FloorDone
    \/ LoopTick
SpecLoop == LoopStart /\ [][LoopNext]_vars

\* sync_topics with its deliveries item by item, against a relay that other
\* publishers write to; subscribers come, go and drop their receivers.
SubNext ==
    \/ \E t \in Topics : subscribe(t)
    \/ \E t \in Topics : Unsubscribe(t)
    \/ \E t \in Topics : drop_receiver(t)
    \/ OtherStore
    \/ SyncFetch
    \/ SyncFetchFail
    \/ \E t \in Topics : TopicLookup(t)
    \/ SendItem
    \/ SendItemFail
    \/ TopicMissing
    \/ TopicMissingFail
    \/ SyncPublish
    \/ SyncPublishFail
    \/ SyncReturn
\* The local store holds the first op of one author in some of the topics.
SubInit == Init /\ \A p \in DOMAIN log : p[2] = "a1" /\ log[p] = 0
SpecSub == SubInit /\ [][SubNext]_vars

\* A fresh node, its contact code asked for and reset, one call at a time.
NodeStart ==
    /\ RelayInit /\ ClientInit /\ log = EmptyLog /\ NoLoop /\ deliv = NoDeliv
    /\ lastcall = NoLastCall /\ locks = NoLocks /\ direct = Idle /\ mbox = NoMailbox /\ lstore = NoLocalStore
    /\ NodeInit
NodeNext ==
    \/ get_or_create_contact_code
    \/ reset_contact_code
    \/ NodeTick
SpecNode == NodeStart /\ [][NodeNext]_vars

\* A loop whose cycles are followed lock by lock and await by await, polling
\* a relay that holds an op the local store lacks and lacks one it holds,
\* while relays are added and removed, the topic is subscribed to and
\* unsubscribed from, and the subscriber takes items or lets them pile up.
LockStart ==
    /\ blobs = {Row(Item("t1", "a1", 1), [ts |-> T0, rnd |-> 0])}
    /\ watermarks = ScanWatermarks(blobs, EmptyWatermarks)
    /\ wtx = NoTxn /\ srv = "up" /\ now = T0 /\ last = Op("init_db", FALSE)
    /\ log = [p \in {<<"t1", "a1">>} |-> 0]
    /\ topics = {} /\ sync = Idle /\ settled = {}
    /\ mailboxes = <<>>
    /\ loop = [pc |-> "ready", next_mailbox |-> 0, next_interval |-> 0,
               deadline |-> 0, last_iteration |-> 0, handles |-> 1]
    /\ trigger = 0 /\ clk = 0
    /\ config = [success_interval |-> 1, error_interval |-> 1, min_interval |-> 1]
    /\ hist = NoHist
    /\ deliv = NoDeliv /\ node = NoNode
    /\ lastcall = NoLastCall /\ locks = NoLocks /\ direct = Idle /\ mbox = NoMailbox /\ lstore = NoLocalStore
LockNext ==
    \/ LockMailboxes
    \/ SelectMailbox
    \/ LockTopics
    \/ subscribed_topics
    \/ ReadHeights
    \/ FetchFromSelected
    \/ \E t \in LoopTopics : LockForLookup(t)
    \/ CloneSender
    \/ SendToChannel
    \/ ReadMissing
    \/ PublishToSelected
    \/ EndOfCycle
    \/ NextCycle
    \/ \E m \in Relays : LockedAdd(m)
    \/ LockedClear
    \/ \E t \in LoopTopics : LockedSubscribe(t)
    \/ \E t \in LoopTopics : LockedUnsubscribe(t)
    \/ Receive
SpecLock == LockStart /\ [][LockNext]_vars

\* The manager, its handles and its background loop under one configuration.
CancelStart ==
    /\ LoopStart
    /\ config = [success_interval |-> 2, error_interval |-> 1, min_interval |-> 1]
CancelNext ==
    \/ CloneHandle
    \/ DropHandle
    \/ \E m \in Relays : HeldAdd(m)
    \/ HeldClear
    \/ HeldTrigger
    \/ \E t \in LoopTopics : HeldSubscribe(t)
    \/ \E t \in LoopTopics : HeldUnsubscribe(t)
    \/ CycleSkip
    \/ CycleFetch
    \/ CycleFetchFail
    \/ \E t \in Topics : SyncTopic(t)
    \/ SyncPublish
    \/ SyncPublishFail
    \/ CycleEnd
    \/ Wake
    \/ FloorDone
    \/ LoopTick
SpecCancel == CancelStart /\ [][CancelNext]_vars

\* One committed sweep, the entries it deleted written down with its time.
CleanupNoted ==
    /\ Sweeping
    /\ hist' = [hist EXCEPT !.evicted =
                    @ \cup {[item |-> Item(r.topic, r.author, r.seq), at |-> now] :
                              r \in blobs \ blobs'}]
    /\ UNCHANGED <<mailboxes, loop, trigger, clk, config>>
    /\ UNCHANGED <<deliv, node, lastcall, locks, direct, mbox, lstore>>

\* The rows a relay may hold of the first two items of (t1, a1), stored at T0.
OldRows == {Row(Item("t1", "a1", s), [ts |-> T0, rnd |-> 0]) : s \in 0..1}

\* A client whose log of (t1, a1) holds 0 and 1 polls a relay that holds some
\* of them since T0 and sweeps as time passes; nobody else writes to it.
EvictStart ==
    /\ blobs \in SUBSET OldRows
    /\ watermarks = ScanWatermarks(blobs, EmptyWatermarks)
    /\ wtx = NoTxn /\ srv = "up" /\ now = T0 /\ last = Op("init_db", FALSE)
    /\ log = [p \in {<<"t1", "a1">>} |-> 1]
    /\ topics = {} /\ sync = Idle /\ settled = {}
    /\ NoLoop /\ deliv = NoDeliv /\ node = NoNode
    /\ lastcall = NoLastCall /\ locks = NoLocks /\ direct = Idle /\ mbox = NoMailbox /\ lstore = NoLocalStore
EvictNext ==
    \/ Tick
    \/ CleanupNoted
    \/ \E t \in Topics : Subscribe(t)
    \/ \E t \in Topics : Unsubscribe(t)
    \/ SyncFetch
    \/ \E t \in Topics : SyncTopic(t)
    \/ SyncPublish
    \/ SyncReturn
SpecEvict == EvictStart /\ [][EvictNext]_vars

\* The app starts and stops its local mailbox; server tasks end.
MailboxStart ==
    /\ RelayInit /\ ClientInit /\ log = EmptyLog /\ NoLoop
    /\ deliv = NoDeliv /\ node = NoNode
    /\ lastcall = NoLastCall /\ locks = NoLocks /\ direct = Idle
    /\ mbox = NoMailbox /\ lstore = NoLocalStore
MailboxNext ==
    \/ StartWhileRunning
    \/ StartNoPath
    \/ StartOk
    \/ StartRegisterFail
    \/ OrphanEnds
    \/ ServerEnds
    \/ StopRunning
    \/ StopWhileStopped
SpecMailbox == MailboxStart /\ [][MailboxNext]_vars

\* The loop's calls of sync_topics and a user's, on one relay that holds an
\* op the local store lacks and lacks one it holds.
DirectStart ==
    /\ blobs = {Row(Item("t1", "a1", 1), [ts |-> T0, rnd |-> 0])}
    /\ watermarks = ScanWatermarks(blobs, EmptyWatermarks)
    /\ wtx = NoTxn /\ srv = "up" /\ now = T0 /\ last = Op("init_db", FALSE)
    /\ log = [p \in {<<"t1", "a1">>} |-> 0]
    /\ topics = {} /\ sync = Idle /\ settled = {}
    /\ NoLoop /\ deliv = NoDeliv /\ node = NoNode
    /\ lastcall = NoLastCall /\ locks = NoLocks /\ direct = Idle /\ mbox = NoMailbox /\ lstore = NoLocalStore
DirectNext ==
    \/ \E t \in Topics : Subscribe(t)
    \/ \E t \in Topics : Unsubscribe(t)
    \/ SyncFetch
    \/ \E t \in Topics : SyncTopic(t)
    \/ SyncPublish
    \/ SyncReturn
    \/ DirectFetch
    \/ \E t \in Topics : DirectTopic(t)
    \/ DirectPublish
    \/ DirectReturn
SpecDirect == DirectStart /\ [][DirectNext]_vars

(***************************************************************************)
(* Properties of the relay                                                 *)
(***************************************************************************)
\* The watermark table holds, for every pair, the highest stored sequence
\* number, and no entry for a pair without rows.
WatermarksAreMax(tbl) ==
    \A p \in Pairs :
        IF StoredSeqs(tbl.blobs, p[1], p[2]) = {}
        THEN p \notin DOMAIN tbl.watermarks
        ELSE /\ p \in DOMAIN tbl.watermarks
             /\ tbl.watermarks[p] = MaxOf(StoredSeqs(tbl.blobs, p[1], p[2]))

\* The rows a request asks for under topic t: those above the height the
\* request reports for their author.
Wanted(bl, req, t) ==
    {r \in bl : r.topic = t /\ r.author \in DOMAIN req[t] /\ r.seq > req[t][r.author]}

\* What a response reports missing for an author.
MissingIn(r, a) == IF a \in DOMAIN r.missing THEN r.missing[a] ELSE {}

\* A response answers a request exactly, given the tables it was served from.
FetchExact(tbl, req, resp) ==
    /\ DOMAIN resp = DOMAIN req
    /\ \A t \in DOMAIN req :
          /\ \A it \in SeqToSet(resp[t].items)
                       \cup {r.payload : r \in Wanted(tbl.blobs, req, t)} :
                Cardinality({i \in 1..Len(resp[t].items) : resp[t].items[i] = it})
                  = Cardinality({r \in Wanted(tbl.blobs, req, t) : r.payload = it})
          /\ DOMAIN resp[t].missing \subseteq DOMAIN req[t]
          /\ \A a \in DOMAIN req[t] :
                MissingIn(resp[t], a) =
                    {s \in Seqs : /\ <<t, a>> \in DOMAIN tbl.watermarks
                                  /\ s <= tbl.watermarks[<<t, a>>]
                                  /\ ~\E r \in tbl.blobs :
                                        r.topic = t /\ r.author = a /\ r.seq = s}

\* C2: for any relay state and any request, the items a fetch returns for a
\* topic and an author are exactly the stored entries with a sequence number
\* above the reported height, and the missing set is exactly the sequence
\* numbers from 0 to the watermark that have no stored entry.  The response
\* of the fetch just served is held against the tables, which a fetch leaves
\* as they were; after any other operation every request is tried.
C2_FetchExact ==
    IF last.op = "fetch"
    THEN FetchExact(Committed, last.req, last.resp)
    ELSE \A req \in Requests :
            FetchExact(Committed, req, get_blobs_for_topics(Committed, req))

\* A fetch has returned items to pull together with a gap to fill.
C2_Witness ==
    /\ last.op = "fetch"
    /\ \E t \in DOMAIN last.resp :
          /\ last.resp[t].items # <<>>
          /\ DOMAIN last.resp[t].missing # {}

\* The sequence numbers a batch stores under a pair.
BatchSeqs(batch, p) ==
    {batch[i].seq : i \in {j \in 1..Len(batch) :
                              batch[j].topic = p[1] /\ batch[j].author = p[2]}}

\* C5: after any sequence of stores, out-of-order and repeated ones included,
\* the watermark of every pair is the highest sequence number ever stored for
\* it; a store advances it to max(current, sequence) and never lowers it.
C5_WatermarkIsMax ==
    /\ WatermarksAreMax(Committed)
    /\ wtx.open =>
          \A p \in Pairs :
              LET was == IF p \in DOMAIN watermarks THEN {watermarks[p]} ELSE {}
                  all == was \cup BatchSeqs(wtx.batch, p)
              IN IF all = {} THEN p \notin DOMAIN wtx.tbl.watermarks
                 ELSE /\ p \in DOMAIN wtx.tbl.watermarks
                      /\ wtx.tbl.watermarks[p] = MaxOf(all)

\* A store at or below the watermark of its pair has been committed.
C5_Witness ==
    /\ last = Op("store", TRUE)
    /\ \E p \in DOMAIN watermarks : watermarks[p] > 0

\* C6: after a server start the watermark table is the one recomputed from
\* the blob table alone - the table incremental maintenance yields for the
\* same rows - and no value persisted before the start survives.
C6_RebuildIsMax == last.op = "init_db" => WatermarksAreMax(Committed)

\* A start has replaced a persisted watermark table that had gone stale.
C6_Witness == last = Op("init_db", TRUE)

\* C7: storing the identical (topic, author, sequence) item twice leaves
\* exactly one retrievable entry for the triple, and a fetch returns the item
\* once.
C7_OneEntry ==
    /\ \A r1, r2 \in blobs :
          (r1.topic = r2.topic /\ r1.author = r2.author /\ r1.seq = r2.seq) => r1 = r2
    /\ last.op = "fetch" =>
          \A t \in DOMAIN last.resp :
              \A i, j \in 1..Len(last.resp[t].items) :
                  last.resp[t].items[i] = last.resp[t].items[j] => i = j

\* C8: in every state a concurrent fetch or a restart after a crash can see,
\* a stored blob and the watermark advance of its store are both there or
\* both absent: no row lies above the watermark of its pair, and no watermark
\* stands at a sequence number whose row is not stored.
C8_StoreAtomic ==
    /\ \A r \in blobs :
          /\ <<r.topic, r.author>> \in DOMAIN watermarks
          /\ r.seq <= watermarks[<<r.topic, r.author>>]
    /\ \A p \in DOMAIN watermarks :
          \E r \in blobs : r.topic = p[1] /\ r.author = p[2] /\ r.seq = watermarks[p]

\* A fetch has been served while a store's transaction, with rows of its own,
\* was open.
C8_Witness ==
    /\ wtx.open
    /\ last.op = "fetch"
    /\ wtx.tbl.blobs # blobs

\* A step that serves a fetch.
FetchStep == last'.op = "fetch" /\ last' # last

SweepStep == last'.op = "cleanup" /\ (last' # last \/ blobs' # blobs)

PollNext ==
    \/ \E t \in Topics : Subscribe(t)
    \/ OtherStore
    \/ SyncFetch
    \/ SyncFetchFail
    \/ \E t \in Topics : SyncTopic(t)
    \/ \E t \in Topics : SyncTopicFail(t)
    \/ SyncPublish
    \/ SyncPublishFail
    \/ SyncReturn
SpecPoll ==
    /\ Init
    /\ [][PollNext]_vars
    /\ WF_vars(SyncFetch \/ SyncFetchFail)
    /\ WF_vars(\E t \in Topics : SyncTopic(t) \/ SyncTopicFail(t))
    /\ WF_vars(SyncPublish \/ SyncPublishFail)
    /\ WF_vars(SyncReturn)

(***************************************************************************)
(* Properties of the reconciliation loop                                   *)
(***************************************************************************)
\* The fetch of the call in progress succeeded.
Fetched ==
    /\ sync.pc \in {"process", "done"}
    /\ sync.fetches = 1
    /\ DOMAIN sync.resp = DOMAIN sync.req

\* The call has fetched and done nothing since: the relay is as the fetch saw it.
FreshFetch == sync.pc = "process" /\ sync.todo = DOMAIN sync.resp

\* The items of a batch that belong to a pair.
OpsOf(batch, p) ==
    {batch[i] : i \in {j \in 1..Len(batch) :
                          batch[j].topic = p[1] /\ batch[j].author = p[2]}}

\* C1: when the relay holds, for a pair of a requested topic, a subset of the
\* contiguous local log with a gap below its watermark, one successful
\* sync_topics call gets the gap as the pair's missing set and publishes
\* exactly the missing items, after which the relay holds every sequence
\* number up to its watermark; the call that follows at once gets empty items
\* and empty missing for the pair.
C1_Convergence ==
    /\ (sync.pc = "done" /\ sync.result = "ok" /\ sync.calm) =>
          \A p \in GapPairs(sync) :
              /\ Len(sync.published) = 1
              /\ OpsOf(sync.published[1], p) =
                    {Item(p[1], p[2], s) : s \in sync.resp[p[1]].missing[p[2]]}
              /\ MissingSeqs(Committed, p[1], p[2]) = {}
    /\ FreshFetch =>
          \A p \in settled \cap ReqPairs(sync.req) :
              /\ \A it \in SeqToSet(sync.resp[p[1]].items) : it.author # p[2]
              /\ p[2] \notin DOMAIN sync.resp[p[1]].missing

\* No response entry holds anything to pull or to push.
AllEmpty(resp) ==
    \A t \in DOMAIN resp : resp[t].items = <<>> /\ DOMAIN resp[t].missing = {}

\* The reported height of every requested pair is at or above its watermark.
Dominates(tbl, req) ==
    \A p \in ReqPairs(req) :
        p \in DOMAIN tbl.watermarks => tbl.watermarks[p] <= req[p[1]][p[2]]

\* The relay holds every sequence number up to the watermark of every
\* requested pair.
NoGaps(tbl, req) == \A p \in ReqPairs(req) : MissingSeqs(tbl, p[1], p[2]) = {}

\* What a call does with a response that holds nothing.
EmptyHanded ==
    (sync.pc = "done" /\ Fetched /\ AllEmpty(sync.resp)) =>
        /\ sync.fwd = <<>>
        /\ sync.published = << <<>> >>

\* C4 as stated: when the reported heights dominate the relay's watermarks
\* for every requested pair, fetch returns empty items and empty missing,
\* nothing is forwarded, publish is invoked exactly once with an empty batch,
\* and the call returns Ok.
C4_NoOpWhenDominating ==
    /\ (FreshFetch /\ Dominates(Committed, sync.req)) => AllEmpty(sync.resp)
    /\ EmptyHanded
    /\ (sync.pc = "done" /\ Fetched /\ AllEmpty(sync.resp)) => sync.result = "ok"

\* C4: when the reported heights dominate the relay's watermarks for every
\* requested pair and the relay has no gap below them, fetch returns empty
\* items and empty missing; on such a response nothing is forwarded, publish
\* is invoked exactly once with an empty batch, and the call returns Ok unless
\* that publish fails.
C4_NoOpWhenDominatingNoGaps ==
    /\ (FreshFetch /\ Dominates(Committed, sync.req) /\ NoGaps(Committed, sync.req))
          => AllEmpty(sync.resp)
    /\ EmptyHanded
    /\ (sync.pc = "done" /\ Fetched /\ AllEmpty(sync.resp))
          => sync.result \in {"ok", "publish_err"}

\* A call has returned Ok from a relay that holds rows of a requested pair,
\* none of them news to the client.
C4_Witness ==
    /\ sync.pc = "done" /\ sync.result = "ok" /\ Fetched
    /\ AllEmpty(sync.resp)
    /\ sync.published = << <<>> >>
    /\ \E p \in ReqPairs(sync.req) : p \in DOMAIN watermarks

\* A step in which a fetch, a local read or a publish fails.
FailStep ==
    \/ SyncFetchFail
    \/ \E t \in Topics : SyncTopicFail(t)
    \/ SyncPublishFail

\* Pull half: the call that has just ended forwarded every row the relay holds
\* above the height reported for its author, for every subscribed topic.
Pulled ==
    sync.pc = "done" =>
        \A r \in blobs :
            (/\ r.topic \in topics
             /\ r.topic \in DOMAIN sync.req
             /\ r.author \in DOMAIN sync.req[r.topic]
             /\ r.seq > sync.req[r.topic][r.author])
            => r.payload \in SeqToSet(sync.fwd)

\* Push half as stated: every item of the local log of a subscribed topic is
\* stored on the relay.
PushedAll ==
    \A p \in DOMAIN log :
        p[1] \in topics => \A s \in 0..log[p] : s \in StoredSeqs(blobs, p[1], p[2])

\* Push half up to the watermark: every item of the local log of a subscribed
\* topic at or below the relay's watermark of its pair is stored on the relay.
PushedToWatermark ==
    \A p \in DOMAIN log :
        (p[1] \in topics /\ p \in DOMAIN watermarks) =>
            \A s \in 0..log[p] :
                s <= watermarks[p] => s \in StoredSeqs(blobs, p[1], p[2])

\* C3 as stated: under periodic polling, once fetch, local reads and publish
\* succeed, the relay has forwarded-to-the-channel every item beyond the
\* reported heights and stores every item of the local log, for every
\* subscribed topic.
C3_ConvergesWhole ==
    <>[][~FailStep]_vars => <>[](Pulled /\ PushedAll)

\* C3: under periodic polling, once fetch, local reads and publish succeed,
\* for every subscribed topic every item the relay holds beyond a reported
\* height has been forwarded to the delivery channel and every item of the
\* local log at or below the relay's watermark is stored on the relay.
C3_ConvergesToWatermark ==
    <>[][~FailStep]_vars => <>[](Pulled /\ PushedToWatermark)

\* A call has ended Ok after forwarding an item and publishing another.
C3_Witness ==
    /\ sync.pc = "done" /\ sync.result = "ok"
    /\ sync.fwd # <<>>
    /\ sync.published # << <<>> >>
    /\ Pulled /\ PushedToWatermark

(***************************************************************************)
(* Properties of the background loop                                       *)
(***************************************************************************)
\* The loop is in the wait that follows a cycle.
Waiting == loop.pc = "wait"

\* C11: the wait that follows a cycle is success_interval exactly when
\* sync_topics returned Ok, and error_interval when no relay is registered,
\* when no topic is subscribed or when sync_topics failed; a cycle that finds
\* no relay or no topic calls neither fetch nor publish.
C11_AdaptiveInterval ==
    Waiting =>
        LET c == hist.cycle IN
        /\ c.outcome \in {"ok", "err", "no_relay", "no_topic"}
        /\ c.outcome = "ok" => loop.next_interval = config.success_interval
        /\ c.outcome # "ok" => loop.next_interval = config.error_interval
        /\ config.success_interval # config.error_interval =>
               (loop.next_interval = config.success_interval <=> c.outcome = "ok")
        /\ c.outcome \in {"no_relay", "no_topic"} =>
               c.fetches = 0 /\ c.publishes = 0 /\ sync = Idle
        /\ c.outcome = "ok" => c.fetches = 1 /\ c.publishes = 1

\* A cycle whose sync_topics failed is followed by a wait that differs from
\* the one a success would have got.
C11_Witness ==
    /\ Waiting
    /\ hist.cycle.outcome = "err"
    /\ config.success_interval # config.error_interval
    /\ hist.prev_start >= 0

\* C12: two consecutive cycle starts of the loop are never less than
\* min_interval apart, whatever the intervals and however often trigger_sync
\* is called.
C12_MinimumIntervalFloor ==
    hist.prev_start >= 0 =>
        loop.last_iteration - hist.prev_start >= config.min_interval

\* A cycle that a wake would have started before the floor started exactly at
\* the floor.
C12_Witness ==
    /\ hist.prev_start >= 0
    /\ config.min_interval > config.success_interval
    /\ config.min_interval > config.error_interval
    /\ loop.last_iteration - hist.prev_start = config.min_interval
    /\ hist.cycle.outcome = "ok"

\* What trigger_sync cannot reach: everything but the trigger channel.
BesidesTrigger == <<mailboxes, loop, clk, config, relayVars, clientVars, deliv, node, lastcall, locks, direct, mbox, lstore>>

\* C13: at most one wake is ever pending; a trigger_sync that finds a wake
\* pending changes nothing, and the wake-up that takes the pending wake leaves
\* none behind, so the calls made before a wait end at most that one wait early.
C13_CoalescingWake ==
    /\ [](trigger <= TriggerCapacity /\ TriggerCapacity = 1)
    /\ [][/\ hist'.dropped /\ ~hist.dropped =>
               trigger = 1 /\ trigger' = 1 /\ UNCHANGED BesidesTrigger
          /\ hist.dropped /\ loop.pc = "wait" /\ loop'.pc # "wait" =>
               trigger' = 0 /\ ~hist'.dropped
          /\ hist.dropped => trigger' <= trigger]_vars

\* trigger_sync was called while a wake was pending and a later cycle was
\* running.
C13_Witness == hist.dropped /\ trigger = 1 /\ loop.pc = "run" /\ hist.prev_start >= 0

\* The entries of the relay list that hold relay m.
Occupied(m) == {j \in 1..Len(mailboxes) : mailboxes[j] = m}

\* Those of the last cycles (as many as the list is long) that selected m.
SelectedIn(m) == {i \in 1..Len(hist.picks) : mailboxes[hist.picks[i] + 1] = m}

\* C16: every registration appends an entry, the same relay again included,
\* and over any n consecutive cycles on an unchanged list of n entries a relay
\* is selected as often as it occurs in the list.
C16_NoDeduplication ==
    /\ Len(mailboxes) = hist.adds
    /\ \A i \in 1..Len(hist.picks) : hist.picks[i] < Len(mailboxes)
    /\ Len(hist.picks) = Len(mailboxes) =>
           \A m \in Relays : Cardinality(SelectedIn(m)) = Cardinality(Occupied(m))

\* A relay registered twice, among three entries, over three cycles.
C16_Witness ==
    /\ Len(mailboxes) = 3
    /\ Len(hist.picks) = 3
    /\ Cardinality(Occupied("m1")) = 2
    /\ Cardinality(SelectedIn("m1")) = 2

\* C17: from clear() to the next add the list is empty, and a cycle that
\* starts in between selects no relay, calls neither fetch nor publish and is
\* followed by a wait of error_interval.
C17_ClearRemovesAll ==
    /\ hist.cleared => mailboxes = <<>>
    /\ hist.cycle.cleared =>
           /\ hist.cycle.outcome = "no_relay"
           /\ hist.cycle.mailbox = "none"
           /\ hist.cycle.fetches = 0 /\ hist.cycle.publishes = 0
           /\ sync = Idle
           /\ loop.next_interval = config.error_interval

\* The list was cleared and a cycle that is not the first started after it:
\* it found no relay although a topic is subscribed.
C17_Witness ==
    /\ hist.cycle.cleared /\ hist.cleared
    /\ topics # {}
    /\ hist.prev_start >= 0
    /\ loop.last_iteration > hist.prev_start
    /\ config.error_interval # config.success_interval
    /\ Waiting

(***************************************************************************)
(* Properties of the delivery channels                                     *)
(***************************************************************************)
\* C14: once subscribe has replaced a topic's channel, no item pulled for the
\* topic is sent to the channel it replaced.
C14_SubscribeReplaces == ~deliv.astray

\* The call of sync_topics has come to its return after passing over a topic
\* that was unsubscribed while the call was under way.
ReturnsAfterSkip == sync.pc = "done" /\ sync.skipped # {}

\* Every item the response holds for a topic that was not passed over has
\* been sent.
RestForwarded ==
    \A t \in (DOMAIN sync.resp) \ sync.skipped :
        \A i \in 1..Len(sync.resp[t].items) :
            \E j \in 1..Len(sync.fwd) : sync.fwd[j] = sync.resp[t].items[i]

\* No item of a topic that was passed over has been sent, the other topics
\* were processed, publish was called once, the call returns Ok.
SkipIsHarmless ==
    /\ sync.result = "ok"
    /\ sync.todo = {}
    /\ \A j \in 1..Len(sync.fwd) : sync.fwd[j].topic \notin sync.skipped
    /\ RestForwarded
    /\ Len(sync.published) = 1

\* C15 as stated: a call that passed over an unsubscribed topic drops the
\* topic's items, processes the other topics, publishes and returns Ok unless
\* fetch, a local read or publish failed.
C15_UnsubscribeRaceNonFatal ==
    ReturnsAfterSkip /\ sync.result \notin {"fetch_err", "log_err", "publish_err"}
        => SkipIsHarmless

\* C15, amended: the same, unless fetch, a send on a delivery channel, a local
\* read or publish failed.
C15_UnsubscribeRaceNonFatalUnlessSendFails ==
    ReturnsAfterSkip
    /\ sync.result \notin {"fetch_err", "log_err", "publish_err", "send_err"}
        => SkipIsHarmless

\* A call returns Ok after it dropped the items of an unsubscribed topic and
\* sent those of another topic.
C15_Witness ==
    /\ ReturnsAfterSkip /\ sync.result = "ok"
    /\ \E t \in sync.skipped : Len(sync.resp[t].items) > 0
    /\ \E t \in (DOMAIN sync.resp) \ sync.skipped : Len(sync.resp[t].items) > 0
    /\ Len(sync.fwd) > 0

(***************************************************************************)
(* Properties of the node's contact code                                   *)
(***************************************************************************)
\* The last call was get_or_create_contact_code.
GotCode == node.called.op = "get"

\* The last call was reset_contact_code, after a call that returned a code.
ResetCode == node.called.op = "reset" /\ node.called.prev # None

\* C19: the first get_or_create_contact_code of a fresh node makes and stores
\* a code with the node's agent id and device id, intent AddContact and an
\* inbox topic that is the only active one; a later call that finds the stored
\* code's inbox topic not expired returns the code the call before it
\* returned and leaves the active inbox topics as they were, one entry.
C19_GetOrCreateIdempotent ==
    LET c == node.called IN
    /\ GotCode /\ c.calls = 1 =>
           /\ c.ret.agent_id = node.agent_id
           /\ c.ret.device_pubkey = node.device_id
           /\ c.ret.share_intent = "AddContact"
           /\ c.ret.inbox_topic # None
           /\ node.active = {c.ret.inbox_topic}
           /\ get_contact_code(node) = c.ret
    /\ GotCode /\ c.calls > 1 /\ c.prev.inbox_topic.expires_at > node.called.at =>
           /\ c.ret = c.prev
           /\ node.active = c.active_before
           /\ Cardinality(node.active) = 1

\* A second call, made later but before the expiry, has returned the code of
\* the first.
C19_Witness ==
    /\ GotCode /\ node.called.prev_op = "get"
    /\ node.called.at > 0
    /\ node.called.prev.inbox_topic.expires_at > node.called.at
    /\ node.called.ret = node.called.prev

Regenerated == FoundExpired(node)

\* What such a call leaves: the expired topic is no longer active, the code it
\* returns has another inbox topic that expires later than the call and is
\* active, and that code is the stored one.
RegeneratedWell ==
    LET c == node.called IN
    Regenerated =>
        /\ \A e \in node.active : e.topic # c.prev.inbox_topic.topic
        /\ c.ret.inbox_topic # None
        /\ c.ret.inbox_topic.topic # c.prev.inbox_topic.topic
        /\ c.ret.inbox_topic.expires_at > c.at
        /\ c.ret.inbox_topic \in node.active
        /\ get_contact_code(node) = c.ret

MissingPairs ==
    {p \in Pairs : p[1] \in DOMAIN sync.resp /\ p[2] \in DOMAIN sync.resp[p[1]].missing}

\* The missing set the response lists for a pair.
MissingOf(p) == sync.resp[p[1]].missing[p[2]]

\* The items of the local log of a pair whose sequence numbers the response
\* lists as missing.
LocalMissing(p) ==
    {Item(p[1], p[2], s) : s \in {x \in MissingOf(p) : p \in DOMAIN log /\ x <= log[p]}}

\* The range reads the call made for a pair.
ReadsOf(p) ==
    {i \in 1..Len(sync.reads) : sync.reads[i].topic = p[1] /\ sync.reads[i].author = p[2]}

\* The call has invoked publish.
PublishInvoked == sync.pc = "done" /\ Len(sync.published) > 0

\* What the batch holds for a pair with a missing set: one range read from
\* the lowest missing sequence number, and exactly the local items the
\* missing set names.
ExtractedFor(p) ==
    /\ Cardinality(ReadsOf(p)) = 1
    /\ \A i \in ReadsOf(p) : sync.reads[i].from = MinOf(MissingOf(p))
    /\ OpsOf(sync.published[1], p) = LocalMissing(p)

\* C22: for every author with a non-empty missing set in the response the
\* call reads the local log once, from the lowest missing sequence number,
\* and the publish batch holds for that topic and author exactly the local
\* items whose sequence numbers are in the missing set; sequence numbers
\* beyond the local log are passed over without an error.
C22_PushExtraction ==
    PublishInvoked => \A p \in MissingPairs : ExtractedFor(p)

\* A call of sync_topics is under way or about to return.
InCall == sync.pc # "idle"

\* Publish is invoked at most once per call; once it is, every topic of the
\* response has been gone through and the one batch holds everything the
\* call collected, for every topic and author it read the local log for.
OneBatch ==
    InCall =>
        /\ Len(sync.published) <= 1
        /\ Len(sync.published) = 1 =>
               /\ sync.todo = {}
               /\ sync.published[1] = sync.ops
               /\ \A p \in MissingPairs :
                      ReadsOf(p) # {} => LocalMissing(p) \subseteq OpsOf(sync.published[1], p)
        /\ sync.pc = "done" /\ sync.result = "ok" =>
               Fetched /\ sync.fetches = 1 /\ Len(sync.published) = 1

\* C23: every call of sync_topics that returns Ok has fetched once and
\* published once, after every topic of the response was gone through and
\* with everything collected in the one batch; no call publishes twice.
C23_SingleBatchPublish ==
    /\ []OneBatch
    /\ [][InCall /\ sync'.pc # "idle" =>
            /\ sync'.req = sync.req /\ sync'.resp = sync.resp
            /\ sync'.fetches = sync.fetches
            /\ sync'.published # sync.published =>
                   /\ sync.published = <<>> /\ sync.todo = {}
                   /\ sync'.published = <<sync.ops>>]_vars

\* A call has returned Ok after publishing, in one batch, ops of two topics.
C23_Witness ==
    /\ sync.pc = "done" /\ sync.result = "ok"
    /\ Len(sync.published) = 1
    /\ \E i, j \in 1..Len(sync.published[1]) :
           sync.published[1][i].topic # sync.published[1][j].topic

\* q is the beginning of r.
IsPrefix(q, r) == Len(q) <= Len(r) /\ SubSeq(r, 1, Len(q)) = q

\* The call is about to return the error of the named request or read.
Fails(why) == sync.pc = "done" /\ sync.result = why

\* What each failure leaves undone: no fetch after a get_log_heights error,
\* nothing delivered or published after a fetch error, no publish after a
\* get_log error whatever was collected, one publish request behind a publish
\* error.
FailureLeaves ==
    /\ Fails("heights_err") =>
           sync.fetches = 0 /\ sync.fwd = <<>> /\ sync.published = <<>>
    /\ Fails("fetch_err") =>
           /\ sync.fetches = 1
           /\ sync.fwd = <<>> /\ sync.reads = <<>> /\ sync.published = <<>>
    /\ Fails("log_err") => sync.fetches = 1 /\ sync.published = <<>>
    /\ Fails("publish_err") => sync.fetches = 1 /\ Len(sync.published) = 1
    /\ sync.pc = "done" => sync.result # "none"

\* C24: sync_topics fails on the first error of fetch, of a local read or of
\* publish and does nothing after it: a get_log_heights error leaves the
\* fetch unsent, a fetch error leaves nothing delivered or published, a
\* get_log error leaves publish uninvoked whatever was collected before; what
\* was sent to the delivery channels before the error stays sent.
C24_FailureSemantics ==
    /\ []FailureLeaves
    /\ [][/\ sync.pc = "done" => sync'.pc = "idle"
          /\ InCall /\ sync'.pc # "idle" => IsPrefix(sync.fwd, sync'.fwd)]_vars

\* A get_log error has ended a call that had sent items to a delivery channel
\* and collected ops of an earlier topic: nothing was published.
C24_Witness ==
    /\ Fails("log_err")
    /\ sync.ops # <<>>
    /\ sync.fwd # <<>>
    /\ sync.published = <<>>

\* The call has gone through its response and is about to publish.
AboutToPublish == sync.pc = "process" /\ sync.todo = {}

\* The call follows one whose publish failed, asks for the same topics and
\* finds the relay's tables as they were at that call's fetch.
RetryOfFailedPush ==
    /\ AboutToPublish
    /\ lastcall.result = "publish_err"
    /\ lastcall.topics = DOMAIN sync.req
    /\ lastcall.calm /\ lastcall.relay = Committed

\* The call was given the missing sets and has collected the batch of the
\* call that failed.
SameMissingSameBatch ==
    /\ MissingMap(sync.resp) = lastcall.missing
    /\ sync.ops = lastcall.batch

\* C25: when a publish failed and neither the relay's tables nor the local
\* log have changed, the next call on the same relay is given the same
\* missing sets and tries to publish the same batch.
C25_RetryAfterFailedPush == RetryOfFailedPush => SameMissingSameBatch

(***************************************************************************)
(* Properties of the mutexes                                               *)
(***************************************************************************)
\* The cycle holds one of the two mutexes.
HoldsLock == locks.mailboxes \/ locks.topics

\* A call of add, clear, subscribe or unsubscribe made now returns.
CallersComplete ==
    /\ \A m \in Relays : Len(mailboxes) < MaxRelays - 1 => ENABLED LockedAdd(m)
    /\ ENABLED LockedClear
    /\ \A t \in LoopTopics : ENABLED LockedSubscribe(t)
    /\ \A t \in topics : ENABLED LockedUnsubscribe(t)

\* The cycle goes on with what it took at its start: the relay it fetches
\* from and publishes to is the one it selected, the request is about the
\* topics it collected.
UsesSnapshot ==
    /\ locks.fetched_from \in {"none", locks.relay}
    /\ locks.published_to \in {"none", locks.relay}
    /\ sync.pc \in {"fetch", "process", "lookup", "send", "done"} =>
           /\ DOMAIN sync.req = locks.snapshot
           /\ locks.relay # "none"
    /\ sync.pc \in {"process", "lookup", "send", "done"} =>
           locks.fetched_from = locks.relay
    /\ sync.pc = "done" => locks.published_to = locks.relay

\* C26: the cycle holds neither the mutex of the relay list nor that of the
\* topic map while it is suspended on fetch, publish, a local read or a send
\* to a delivery channel, a full one included; so a call of add, clear,
\* subscribe or unsubscribe made then returns, and the cycle goes on with the
\* relay and the topics it took at its start whatever those calls changed.
C26_LockDiscipline ==
    /\ AwaitsIO => ~HoldsLock /\ CallersComplete
    /\ HoldsLock => /\ loop.pc \in {"select", "snapshot"} \/ sync.pc = "lookup"
                    /\ ~(locks.mailboxes /\ locks.topics)
    /\ UsesSnapshot

\* The cycle is suspended on a full channel; clear and unsubscribe have been
\* called meanwhile and have emptied the relay list and the topic map.
C26_Witness ==
    /\ Blocked
    /\ {"clear", "unsubscribe"} \subseteq locks.mid
    /\ mailboxes = <<>> /\ topics = {}
    /\ locks.relay # "none" /\ locks.snapshot # {}

(***************************************************************************)
(* C27: only one reconciliation cycle executes at a time per manager: at   *)
(* no time are two sync_topics executions of the same manager in progress, *)
(* also when a user calls sync_topics while the background loop runs.      *)
(***************************************************************************)
DirectInCall == direct.pc # "idle"
C27_OneCycleAtATime == ~(InCall /\ DirectInCall)

(***************************************************************************)
(* C28: round-robin relay selection. Each cycle selects at most one relay; *)
(* on an unchanged list of n >= 1 relays the selected index is (previous   *)
(* index + 1) mod n, so every entry is selected exactly once in any n      *)
(* consecutive cycles; whatever add and clear did in between, the selected *)
(* index is below the current list length (0 when the list shrank below    *)
(* the previous index), and a cycle on an empty list selects nothing.      *)
(***************************************************************************)
\* one_iteration is called in this step.
CycleStarts == AtStart /\ loop'.pc \notin {"spawned", "ready"}

\* The indices of the relay list.
Indices == 0..(Len(mailboxes) - 1)

\* What the cycle that starts in this step selects.
SelectsRoundRobin ==
    LET n == Len(mailboxes)
        prev == loop.next_mailbox
        ix == loop'.next_mailbox
    IN IF n = 0
       THEN /\ ix = 0
            /\ hist'.cycle.mailbox = "none"
            /\ hist'.cycle.fetches = 0
            /\ sync' = sync
       ELSE /\ ix \in Indices
            /\ hist'.cycle.mailbox = mailboxes[ix + 1]
            /\ prev < n => ix = (prev + 1) % n
            /\ prev >= n => ix = 0
            /\ Len(hist.picks) > 0 => prev < n

\* The last n selections on an unchanged list of n entries name every entry
\* once.
EachOnce ==
    Len(mailboxes) > 0 /\ Len(hist.picks) = Len(mailboxes) =>
        \A j \in Indices :
            Cardinality({i \in 1..Len(hist.picks) : hist.picks[i] = j}) = 1

C28_RoundRobin ==
    /\ []EachOnce
    /\ []( Len(hist.picks) <= Len(mailboxes) )
    /\ [][CycleStarts => SelectsRoundRobin]_vars

\* Three cycles on an unchanged list of three relays went round and wrapped.
C28_Witness ==
    /\ Len(mailboxes) = 3
    /\ hist.picks = <<1, 2, 0>>
    /\ loop.next_mailbox = 0

(***************************************************************************)
(* C29: cooperative cancellation. When the wake channel is closed (no      *)
(* sender remains for its receive) the background loop exits at that wait  *)
(* and starts no further cycle; a timeout or a received trigger never ends *)
(* the loop.                                                               *)
(***************************************************************************)
\* The last wait ended, by a wake or the timeout, when every handle of the
\* manager had been dropped and no wake was left to receive.
WokeOrphaned == hist.orphan

BatchItems == SeqToSet(sync.published[1])

C30_MissingPushedRegardlessOfChannel ==
    PublishInvoked =>
        \A p \in MissingPairs : LocalMissing(p) \subseteq BatchItems

(***************************************************************************)
(* C31: in every reachable relay state, after any interleaving of store,   *)
(* cleanup and restart, the watermark table equals what a full scan of the *)
(* blob table computes (the highest stored sequence number of each pair,   *)
(* no row for a pair without blobs); in particular a sweep that deletes    *)
(* blobs leaves the watermark table consistent with the remaining blobs.   *)
(***************************************************************************)
C31_WatermarksMatchScan == watermarks = ScanWatermarks(blobs, EmptyWatermarks)

(***************************************************************************)
(* C32: an entry evicted by the retention sweep stays evicted. After a     *)
(* cleanup has deleted the entry (topic, author, s), no later              *)
(* reconciliation cycle stores an entry for (topic, author, s) on the      *)
(* relay again, even when the relay's watermark still covers s and a       *)
(* polling client still holds s in its local log.                          *)
(***************************************************************************)
\* The rows stored for an evicted entry at or after the time of its eviction.
StoredAgain(e) ==
    {r \in blobs : /\ Item(r.topic, r.author, r.seq) = e.item
                   /\ r.uuid.ts >= e.at}

C32_EvictedStaysEvicted == \A e \in hist.evicted : StoredAgain(e) = {}

(***************************************************************************)
(* C33: closed delivery channel. If a topic is still subscribed but the    *)
(* receiver of its delivery channel has been dropped, and the response     *)
(* holds at least one item for the topic, sync_topics returns an error at  *)
(* the first such item, publish is not invoked in that call and the loop   *)
(* schedules error_interval; nothing in the call changes the topic's       *)
(* entry, so this repeats every cycle until the topic is unsubscribed or   *)
(* subscribed again.                                                       *)
(***************************************************************************)
\* The next item goes to the channel the topic map holds for its topic, and
\* that channel's receiver has been dropped.
SendsToClosed ==
    /\ sync.pc = "send" /\ deliv.rest # <<>>
    /\ ~Abandoned /\ deliv.cur \in deliv.closed

\* The call fails at that item: nothing more is forwarded, nothing published,
\* the topic's entry and its channel stay as they are.
FailsAtItem ==
    /\ sync'.pc = "done" /\ sync'.result = "send_err"
    /\ sync'.fwd = sync.fwd
    /\ sync'.published = <<>>
    /\ topics' = topics
    /\ deliv'.gen = deliv.gen /\ deliv'.closed = deliv.closed

\* A call that failed at a send has published nothing, and one_iteration
\* answers it with error_interval.
SendErrorScheduled ==
    (sync.pc = "done" /\ sync.result = "send_err") =>
        /\ sync.published = <<>>
        /\ OutcomeOf(sync.result) = "err"
        /\ IntervalFor(OutcomeOf(sync.result)) = config.error_interval

C33_ClosedChannelFailsCall ==
    /\ []SendErrorScheduled
    /\ [][(SendsToClosed /\ (sync' # sync \/ deliv'.rest # deliv.rest)) => FailsAtItem]_vars

\* A call failed at the first item of a topic that is subscribed once and
\* whose receiver was dropped, after it had forwarded another topic's item.
C33_Witness ==
    /\ sync.pc = "done" /\ sync.result = "send_err"
    /\ ~deliv.astray
    /\ Len(sync.fwd) > 0
    /\ \E t \in sync.todo \cap topics \cap deliv.closed :
          /\ deliv.gen[t] = 1
          /\ Len(sync.resp[t].items) > 0
          /\ \A j \in 1..Len(sync.fwd) : sync.fwd[j].topic # t

(***************************************************************************)
(* C34: a trigger is never lost. A trigger_sync call made at any point     *)
(* (while a cycle runs, during the min-interval sleep or during the wait   *)
(* between cycles) leaves a pending wake; a pending wake ends the next     *)
(* wait between cycles at once, so the next cycle starts without waiting   *)
(* out the scheduled interval, subject only to the min_interval floor; and *)
(* each consumed wake shortens exactly one wait.                           *)
(***************************************************************************)
\* A wait with a wake pending can end now, whatever its deadline.
PendingWakeEndsWait == (loop.pc = "wait" /\ trigger > 0) => ENABLED Wake

\* A wake leaves the channel only by ending a wait, one wake per wait, and the
\* cycle that follows starts at once or at the floor.
WakeConsumedByOneWait ==
    trigger' < trigger =>
        /\ loop.pc = "wait"
        /\ trigger' = trigger - 1
        /\ \/ loop'.pc = "ready"
           \/ /\ loop'.pc = "floor"
              /\ loop'.deadline = loop.last_iteration + config.min_interval
              /\ clk < loop'.deadline

C34_TriggerNeverLost ==
    /\ []PendingWakeEndsWait
    /\ [][trigger_sync => trigger' = 1]_vars
    /\ [][WakeConsumedByOneWait]_vars

\* A wait was ended by a wake before its interval had passed, the floor being
\* met: the next cycle is about to start early.
C34_Witness ==
    /\ loop.pc = "ready" /\ trigger = 0
    /\ hist.cycle.outcome = "ok"
    /\ clk - loop.last_iteration < loop.next_interval
    /\ clk - loop.last_iteration >= config.min_interval

(***************************************************************************)
(* C35: every reconciliation cycle terminates. Provided fetch, the local   *)
(* reads and publish each return, sync_topics returns (Ok or Err) and the  *)
(* background loop goes on to its next wait, even if a subscriber never    *)
(* drains its bounded (capacity 100) delivery channel.                     *)
(***************************************************************************)
\* The steps of a cycle, those of the loop's task alone.
CycleStep ==
    \/ LockMailboxes
    \/ SelectMailbox
    \/ LockTopics
    \/ subscribed_topics
    \/ ReadHeights
    \/ FetchFromSelected
    \/ \E t \in LoopTopics : LockForLookup(t)
    \/ CloneSender
    \/ SendToChannel
    \/ ReadMissing
    \/ PublishToSelected
    \/ EndOfCycle

\* A cycle under way can take its next step without anybody else's help.
C35_CycleTerminates == InCall => ENABLED CycleStep

(***************************************************************************)
(* C36: the background loop stops once it is no longer needed. After every *)
(* Mailboxes handle held by callers has been dropped, the wake channel     *)
(* closes and the spawned loop task exits instead of continuing to poll    *)
(* relays.                                                                 *)
(***************************************************************************)
\* No handle is held outside the loop's task.
NoHandleLeft == loop.handles = 0

\* A relay is being polled in a cycle that started when no handle was left
\* and its wait had ended with none left.
PollsUnneeded ==
    /\ NoHandleLeft /\ hist.orphan
    /\ loop.pc = "run" /\ hist.cycle.fetches > 0

C36_LoopStopsWhenUnneeded ==
    /\ NoHandleLeft => Senders = 0
    /\ ~PollsUnneeded

(***************************************************************************)
(* C37: local mailbox lifecycle. Across any sequence of start and stop     *)
(* calls, a start that fails while registering the mDNS service included,  *)
(* at most one server task exists at a time and the shared state is Some   *)
(* exactly when a server task has been spawned and not yet stopped; start  *)
(* while running spawns nothing, stop while not running does nothing, and  *)
(* stop returns only after the server task has finished, leaving None.     *)
(***************************************************************************)
\* The server tasks that exist: the one the state holds, unless it has
\* finished, and the detached ones.
ServerTasks == mbox.orphans + (IF mbox.held = "running" THEN 1 ELSE 0)

\* The state is Some exactly when a task spawned by a start has not been
\* stopped since.
SomeIffSpawned ==
    mbox.state = "Some" <=> (mbox.held # "none" \/ mbox.orphans > 0)

C37_LocalMailboxLifecycle ==
    /\ ServerTasks <= 1
    /\ SomeIffSpawned
    /\ mbox.call = "stop" => mbox.state = "None" /\ mbox.held = "none"

(***************************************************************************)
(* The local store alone: opening, initializing, the active inbox table    *)
(***************************************************************************)
LocalStoreStart ==
    /\ RelayInit /\ ClientInit /\ log = EmptyLog /\ NoLoop
    /\ deliv = NoDeliv /\ node = NoNode
    /\ lastcall = NoLastCall /\ locks = NoLocks /\ direct = Idle
    /\ mbox = NoMailbox /\ lstore = NoLocalStore
LocalStoreNext ==
    \/ LsNew
    \/ LsNewFails
    \/ LsEnsure
    \/ LsDrop
    \/ LsAdd
    \/ LsPrune
    \/ LsRemove
SpecLocalStore == LocalStoreStart /\ [][LocalStoreNext]_vars

(***************************************************************************)
(* The encoding of InboxTopic alone: two values, written and compared      *)
(***************************************************************************)
EncodingStart ==
    /\ RelayInit /\ ClientInit /\ log = EmptyLog /\ NoLoop
    /\ deliv = NoDeliv /\ node = NoNode
    /\ lastcall = NoLastCall /\ locks = NoLocks /\ direct = Idle
    /\ mbox = NoMailbox
    /\ \E v1 \in InboxTopics, v2 \in InboxTopics :
        lstore = [NoLocalStore EXCEPT !.last = [op |-> "input", v1 |-> v1, v2 |-> v2]]
EncodingNext ==
    \/ LsRoundtrip
    \/ LsCompare
SpecEncoding == EncodingStart /\ [][EncodingNext]_vars

(***************************************************************************)
(* C38: initializing the local store is idempotent.  Once the private key  *)
(* and the agent id are written, no later ensure_initialized and no        *)
(* reopening of the store changes either; keys are written only by a call  *)
(* that finds both fields absent, and such a call writes the keys it drew. *)
(***************************************************************************)
InitializingCall == lstore.last.op \in {"new", "ensure_initialized"}
IdentityWrittenWhole ==
    \/ lstore.identity = NoIdentity
    \/ lstore.identity.private_key # Absent /\ lstore.identity.agent_id # Absent
FreshKeysWhenAbsent ==
    (InitializingCall /\ lstore.last.found = NoIdentity)
        => lstore.identity = [private_key |-> lstore.last.private_key,
                              agent_id |-> lstore.last.agent_id]
C38_InitializationIdempotent ==
    /\ [][lstore'.identity # lstore.identity => lstore.identity = NoIdentity]_vars
    /\ [](IdentityWrittenWhole /\ FreshKeysWhenAbsent)
\* The store is reopened and draws other keys than the ones it holds.
C38_Witness ==
    /\ lstore.last.op = "new"
    /\ lstore.last.found # NoIdentity
    /\ lstore.last.private_key # lstore.identity.private_key
    /\ lstore.last.agent_id # lstore.identity.agent_id
    /\ lstore.identity = lstore.last.found

(***************************************************************************)
(* C39: prune_expired_active_inbox_topics(cutoff) removes from the active  *)
(* inbox table exactly the entries whose expires_at is earlier than the    *)
(* cutoff; every entry whose expires_at is the cutoff or later stays,      *)
(* whatever its topic id.                                                  *)
(***************************************************************************)
\* get_active_inbox_topics of a table: its entries as values.
Entries(table) == {from_bytes(k) : k \in table}
Pruned == lstore.last.op = "prune"
C39_PruneRemovesExactlyExpired ==
    Pruned =>
        Entries(lstore.active) =
            {v \in Entries(lstore.last.before) :
                v.expires_at >= lstore.last.expires_at}
\* A prune that removes an entry of a large topic id and keeps one that
\* expires at the cutoff itself and has the zero topic id.
C39_Witness ==
    /\ Pruned
    /\ lstore.last.expires_at > 0
    /\ \E gone \in Entries(lstore.last.before) \ Entries(lstore.active) :
        /\ gone.expires_at < lstore.last.expires_at
        /\ gone.topic # ZeroTopic
    /\ \E kept \in Entries(lstore.active) :
        /\ kept.expires_at = lstore.last.expires_at
        /\ kept.topic = ZeroTopic

(***************************************************************************)
(* C40: ordering covariance of InboxTopic.  Two values whose expires_at is *)
(* the Unix epoch or later compare as values (expires_at, then topic) the  *)
(* way their encodings compare as byte strings; these are the values the   *)
(* encoding gives back unchanged.                                          *)
(***************************************************************************)
SinceEpoch(v) == v.expires_at >= 0
Compared == lstore.last.op = "cmp"
RoundTripped == lstore.last.op = "roundtrip"
C40_OrderingCovariance ==
    /\ (Compared /\ SinceEpoch(lstore.last.v1) /\ SinceEpoch(lstore.last.v2))
           => lstore.last.ord = lstore.last.bytes
    /\ (RoundTripped /\ SinceEpoch(lstore.last.in1))
           => lstore.last.v1 = lstore.last.in1
    /\ (RoundTripped /\ SinceEpoch(lstore.last.in2))
           => lstore.last.v2 = lstore.last.in2
\* The earlier value has the larger low byte in its timestamp and the larger
\* topic id, and is found the lesser both ways.
C40_Witness ==
    /\ Compared
    /\ lstore.last.v1.expires_at = ByteBase - 1
    /\ lstore.last.v2.expires_at = ByteBase
    /\ TopicCmp(lstore.last.v1.topic, lstore.last.v2.topic) = "Greater"
    /\ lstore.last.ord = "Less"
    /\ lstore.last.bytes = "Less"

====
